---- MODULE Spec2Model ----
(***************************************************************************)
(* Timeline reconciliation core of SpeechBridge.                           *)
(*                                                                         *)
(* All times are integers counted in deciseconds (0.1 s): 0.5 s is 5,      *)
(* 4 s is 40.  Every duration the model draws is a whole number of         *)
(* deciseconds, so the int(x * 1000) truncations of the source are exact.  *)
(*                                                                         *)
(* The specifications of the module:                                       *)
(*   Spec       VideoProcessor.create_final_video with                     *)
(*              _adjust_video_speed_by_segments and                        *)
(*              _combine_translated_audio                                  *)
(*   SpecMerge  the final-merge routines as functions of the measured      *)
(*              audio duration A and video duration V                      *)
(*   SpecFinal  the same machine as Spec from shorter segment lists        *)
(*   SpecVAD    VoiceActivityDetector                                      *)
(*   SpecDiar   SpeakerDiarization: segment_by_speakers followed by        *)
(*              merge_short_segments                                       *)
(*   SpecBlocks create_synchronized_video_blocks and combine_video_blocks  *)
(*              beside create_final_video on the same segment list         *)
(*   SpecJobs   two jobs running at the same time through                  *)
(*              SpeakerDiarization and VideoTimeAdjuster                   *)
(*   SpecAttr   _detect_gender_for_segments and merge_short_segments, each *)
(*              applied twice, on lists of the silence segmentation        *)
(*   SpecRetime the retiming decision of the two per-segment routines for  *)
(*              one segment                                                *)
(*   SpecWeb    VideoTranslatorApp: uploads, worker threads, deletions     *)
(***************************************************************************)
EXTENDS Integers, Sequences, FiniteSets, TLC

VARIABLES
    \* ---- VideoProcessor.create_final_video / _combine_translated_audio
    segments,            \* translated_audio_segments (input)
    orig_duration,       \* duration of the original video (input)
    adjust_video_speed,  \* parameter of create_final_video (input)
    detected,            \* where the original audio first gets loud (input)
    first_probe,         \* where the first translated file gets loud (input)
    pc,                  \* position inside create_final_video
    video_duration,      \* video.duration handed to _combine_translated_audio
    speech_segments,     \* list built by the VAD filter, sorted
    audio_segments,      \* list of pieces to concatenate
    current_time,        \* running time of _combine_translated_audio
    successful_segments, \* counter of appended speech segments
    idx,                 \* next element of speech_segments to process
    final_audio,         \* concatenated track (with trailing silence)
    result,              \* what _combine_translated_audio returned
    output,              \* what create_final_video wrote
    returncode,          \* result.returncode of the FFmpeg merge, -1: not run
    returned,            \* what create_final_video returned
    \* ---- final-merge routines
    mA, mV, mRoutine, mOut,
    \* ---- VoiceActivityDetector
    vSegments, vThreshold, vIdx, vFiltered, vLast,
    \* ---- SpeakerDiarization
    d_audio,             \* the audio file: alternating sound and silence
    min_duration,        \* min_speaker_duration of segment_by_speakers
    silence_segments,    \* what detect_silence returned
    sil_i,               \* position of the loop over silence_segments
    current_pos,         \* running position of the loop
    current_speaker,     \* 0 = A, 1 = B
    spk_segments,        \* the list segment_by_speakers builds and returns
    used_voices,         \* self.used_voices
    route,               \* which segmentation produced spk_segments
    merge_min,           \* min_duration of merge_short_segments
    merged,              \* what merge_short_segments returned
    dpc,                 \* position inside segment_by_speakers
    \* ---- create_synchronized_video_blocks / combine_video_blocks
    bpc,                 \* position inside the two calls
    block_segments,      \* speech_segments of create_synchronized_video_blocks
    block_i,             \* position of the loop over block_segments
    video_clips,         \* the blocks written so far
    block_counter,       \* block_counter
    final_clips,         \* what combine_video_blocks concatenated
    blocks_returned,     \* what combine_video_blocks returned
    \* ---- two jobs running at the same time
    spk_file,            \* /tmp/speaker_segment_{id}.wav: whose data it holds
    vid_file,            \* /tmp/video_segment_{id}.mp4: whose data it holds
    concat_file,         \* /tmp/video_segments_list.txt
    jNum,                \* number of segments of each job's video
    jpc,                 \* position of each job
    jk,                  \* loop index of each job
    jList,               \* video_segments of each job
    jGenderIn,           \* whose audio each job analysed, per segment
    jOut,                \* whose video segments went into each job's output
    jRc,                 \* return code of each job's FFmpeg, -1: not run
    \* ---- speaker attribution and merge on a given segment list
    outcomes,            \* what the analysis of each speaker's first file meets
    runs,                \* what each run of _detect_gender_for_segments returned
    remerged,            \* merge_short_segments applied to its own output
    apc,                 \* position of the attribution experiment
    \* ---- the retiming decision of one segment
    r_segment,           \* the segment: start_time, end_time, translated length
    r_adjust,            \* the clip _adjust_video_speed_by_segments appends
    r_block,             \* the block create_synchronized_video_blocks writes
    rpc,                 \* which of the two routines have run
    \* ---- VideoTranslatorApp: tasks, their files and their threads
    active_tasks,        \* self.active_tasks: the task ids it holds
    task_status,         \* task.status of every task object
    input_file,          \* whether the uploaded file of a task exists
    output_file,         \* whether the translated file of a task exists
    worker,              \* position of the thread of process_video_async
    deleting             \* delete requests between their test and their unlink

pvars == <<segments, orig_duration, adjust_video_speed, detected, first_probe,
           pc, video_duration, speech_segments, audio_segments, current_time,
           successful_segments, idx, final_audio, result, output,
           returncode, returned>>
mvars == <<mA, mV, mRoutine, mOut>>
vvars == <<vSegments, vThreshold, vIdx, vFiltered, vLast>>
dvars == <<d_audio, min_duration, silence_segments, sil_i, current_pos,
           current_speaker, spk_segments, used_voices, route, merge_min,
           merged, dpc>>
bvars == <<bpc, block_segments, block_i, video_clips, block_counter,
           final_clips, blocks_returned>>
jvars == <<spk_file, vid_file, concat_file, jNum, jpc, jk, jList, jGenderIn,
           jOut, jRc>>
avars == <<outcomes, runs, remerged, apc>>
rvars == <<r_segment, r_adjust, r_block, rpc>>
wvars == <<active_tasks, task_status, input_file, output_file, worker,
           deleting>>
vars  == <<pvars, mvars, vvars, dvars, bvars, jvars, avars, rvars, wvars>>

(***************************************************************************)
(* Bounds and input domains                                                *)
(***************************************************************************)
MaxSegs == 3
MaxFinalSegs == 2

SlotDurs   == {40}           \* original duration of a segment (4 s)
GapDurs    == {10}           \* a pause between two segments (1 s)
TailDurs   == {0, 10}        \* video left after the last segment
SynthDurs  == {20, 40, 72}   \* synthesized audio: shorter, equal, 1.8 x slot
OrigProbes == {0, 15}        \* multiples of 0.5 s, video_processor.py:601
FirstProbes == {-1, 20}      \* multiples of 1 s, -1: no loud second found

NoSeg == 0

(***************************************************************************)
(* Generic helpers                                                         *)
(***************************************************************************)
RECURSIVE SumLen(_)
SumLen(pieces) ==
    IF pieces = <<>> THEN 0 ELSE Head(pieces).len + SumLen(Tail(pieces))

Max(a, b) == IF a >= b THEN a ELSE b
Min(a, b) == IF a <= b THEN a ELSE b
Abs(a) == IF a >= 0 THEN a ELSE -a

Silent(d) == [kind |-> "silence", len |-> d, seg |-> NoSeg]
Speech(s) == [kind |-> "speech", len |-> s.synth, seg |-> s.id]

(***************************************************************************)
(* Input segments of create_final_video                                    *)
(***************************************************************************)
OkProfiles ==
    {[vad_is_speech |-> TRUE, status |-> "ok", success |-> TRUE,
      has_audio |-> TRUE, synth |-> d, load_raises |-> FALSE] : d \in SynthDurs}

NonSpeechProfiles ==
    {[vad_is_speech |-> FALSE, status |-> "ok", success |-> TRUE,
      has_audio |-> FALSE, synth |-> 0, load_raises |-> FALSE],
     [vad_is_speech |-> TRUE, status |-> "no_speech_vad", success |-> TRUE,
      has_audio |-> FALSE, synth |-> 0, load_raises |-> FALSE],
     \* marked as non-speech although a synthesized file exists
     [vad_is_speech |-> FALSE, status |-> "no_speech_vad", success |-> TRUE,
      has_audio |-> TRUE, synth |-> 40, load_raises |-> FALSE]}

FailedProfiles ==
    {[vad_is_speech |-> TRUE, status |-> "ok", success |-> TRUE,
      has_audio |-> FALSE, synth |-> 0, load_raises |-> FALSE],
     [vad_is_speech |-> TRUE, status |-> "ok", success |-> FALSE,
      has_audio |-> TRUE, synth |-> 40, load_raises |-> FALSE],
     [vad_is_speech |-> TRUE, status |-> "error", success |-> TRUE,
      has_audio |-> TRUE, synth |-> 40, load_raises |-> FALSE],
     [vad_is_speech |-> TRUE, status |-> "no_speech", success |-> TRUE,
      has_audio |-> TRUE, synth |-> 40, load_raises |-> FALSE],
     [vad_is_speech |-> TRUE, status |-> "ok", success |-> TRUE,
      has_audio |-> TRUE, synth |-> 40, load_raises |-> TRUE]}

Profiles == OkProfiles \cup NonSpeechProfiles \cup FailedProfiles

\* n segments in start_time order; one pause of length gap sits before
\* segment gapAt (gapAt = 0: the segments are contiguous from time 0)
MkSegments(n, prof, gapAt, slot, gap) ==
    [i \in 1..n |->
        LET st == (i - 1) * slot + (IF gapAt # 0 /\ gapAt <= i THEN gap ELSE 0)
        IN [id |-> i, start_time |-> st, end_time |-> st + slot,
            vad_is_speech |-> prof[i].vad_is_speech,
            status |-> prof[i].status,
            success |-> prof[i].success,
            has_audio |-> prof[i].has_audio,
            synth |-> prof[i].synth,
            load_raises |-> prof[i].load_raises]]

SegmentInputs(maxn) ==
    UNION {{MkSegments(n, prof, g, slot, gap) :
                prof \in [1..n -> Profiles], g \in 0..n,
                slot \in SlotDurs, gap \in GapDurs} : n \in 0..maxn}

LastEnd(segs) == IF segs = <<>> THEN 0 ELSE segs[Len(segs)].end_time

(***************************************************************************)
(* speech_segments.sort(key=start_time): a stable sort                     *)
(***************************************************************************)
RECURSIVE InsertByStart(_, _)
InsertByStart(s, sorted) ==
    IF sorted = <<>> THEN <<s>>
    ELSE IF s.start_time < Head(sorted).start_time THEN <<s>> \o sorted
    ELSE <<Head(sorted)>> \o InsertByStart(s, Tail(sorted))

RECURSIVE SortAcc(_, _)
SortAcc(seq, acc) ==
    IF seq = <<>> THEN acc
    ELSE SortAcc(Tail(seq), InsertByStart(Head(seq), acc))

SortByStart(seq) == SortAcc(seq, <<>>)

(***************************************************************************)
(* VideoProcessor._adjust_video_speed_by_segments: duration of the video   *)
(* it returns                                                              *)
(***************************************************************************)
ValidForSpeed(s) == s.has_audio /\ s.success /\ ~s.load_raises

\* speed_ratio = original_duration / translated_duration, and the clip is
\* retimed when speed_ratio != 1.0 and speed_ratio > 0.1
Retimed(s) ==
    LET original_duration == s.end_time - s.start_time
    IN /\ s.synth > 0
       /\ original_duration # s.synth
       /\ 10 * original_duration > s.synth

RECURSIVE AdjustWalk(_, _, _)
AdjustWalk(valid, cur, vdur) ==
    IF valid = <<>>
    THEN (IF cur < vdur THEN vdur - cur ELSE 0)
    ELSE LET s == Head(valid)
             normal == IF cur < s.start_time THEN s.start_time - cur ELSE 0
             clip == IF Retimed(s) THEN s.synth
                     ELSE s.end_time - s.start_time
         IN normal + clip + AdjustWalk(Tail(valid), s.end_time, vdur)

AdjustedDuration(segs, vdur) ==
    LET valid == SortByStart(SelectSeq(segs, ValidForSpeed))
    IN IF valid = <<>> THEN vdur ELSE AdjustWalk(valid, 0, vdur)

(***************************************************************************)
(* The final-merge routines as functions of the measured audio duration A  *)
(* and the video duration V                                                *)
(***************************************************************************)
MergeTolerance == 5       \* 0.5 s
PadTolerance == 1         \* 0.1 s
NoAudio == -1

\* what ffmpeg writes for a command: without -shortest every mapped stream
\* keeps its full length, with -shortest the output ends with the shorter
FFmpegRun(cmd, A, V) ==
    LET vlen == V + cmd.pad
        alen == IF cmd.mix THEN Min(A, V) ELSE A
    IN IF cmd.shortest
       THEN [video |-> Min(vlen, alen), audio |-> Min(vlen, alen),
             vcodec |-> cmd.vcodec, pad |-> cmd.pad]
       ELSE [video |-> vlen, audio |-> alen,
             vcodec |-> cmd.vcodec, pad |-> cmd.pad]

\* variant of VPMergeCmd that ends the output with the shorter stream
\* instead of padding the video
VPMergeCmd_Shortest(A, V) ==
    [vcodec |-> "copy", pad |-> 0, shortest |-> TRUE, mix |-> FALSE]

\* VideoProcessor.create_final_video, the FFmpeg command it builds
VPMergeCmd(A, V) ==
    IF A > V + MergeTolerance
    THEN [vcodec |-> "libx264", pad |-> A - V, shortest |-> FALSE, mix |-> FALSE]
    ELSE IF Abs(A - V) < MergeTolerance
    THEN [vcodec |-> "copy", pad |-> 0, shortest |-> FALSE, mix |-> FALSE]
    ELSE [vcodec |-> "copy", pad |-> 0, shortest |-> FALSE, mix |-> FALSE]

VPMerge(A, V) == FFmpegRun(VPMergeCmd(A, V), A, V)

\* variant of MergeAudioCmd that pads only beyond 0.5 s
MergeAudioCmd_HalfSecond(A, V, remove_original_audio) ==
    IF remove_original_audio
    THEN IF A > V + MergeTolerance
         THEN [vcodec |-> "libx264", pad |-> A - V, shortest |-> FALSE,
               mix |-> FALSE]
         ELSE [vcodec |-> "copy", pad |-> 0, shortest |-> FALSE, mix |-> FALSE]
    ELSE [vcodec |-> "copy", pad |-> 0, shortest |-> FALSE, mix |-> TRUE]

\* FFmpegProcessor.merge_audio, the FFmpeg command it builds
MergeAudioCmd(A, V, remove_original_audio) ==
    IF remove_original_audio
    THEN IF A > V + PadTolerance
         THEN [vcodec |-> "libx264", pad |-> A - V, shortest |-> FALSE,
               mix |-> FALSE]
         ELSE [vcodec |-> "copy", pad |-> 0, shortest |-> FALSE, mix |-> FALSE]
    ELSE [vcodec |-> "copy", pad |-> 0, shortest |-> FALSE, mix |-> TRUE]

MergeAudio(A, V, remove_original_audio) ==
    FFmpegRun(MergeAudioCmd(A, V, remove_original_audio), A, V)

\* VideoTranslator.create_final_video: the audio is subclipped to the video,
\* or padded with silence up to it, and set on the unchanged video
VTMerge(A, V) ==
    [video |-> V,
     audio |-> IF A > V THEN V ELSE IF A < V THEN A + (V - A) ELSE A,
     vcodec |-> "libx264", pad |-> 0]

\* VideoTimeAdjuster._simple_combine
SimpleCombineCmd ==
    [vcodec |-> "copy", pad |-> 0, shortest |-> TRUE, mix |-> FALSE]

SimpleCombine(A, V) == FFmpegRun(SimpleCombineCmd, A, V)

(***************************************************************************)
(* VideoProcessor._combine_translated_audio                                *)
(***************************************************************************)
FirstProbeMinLen == 50    \* len(first_audio) > 5000 ms

\* the VAD filter: a segment whose vad_is_speech is false or whose status is
\* 'no_speech_vad' is skipped, the others are kept when they have an end_time
IsNonSpeech(s) == ~s.vad_is_speech \/ s.status = "no_speech_vad"

Included(s) == ~IsNonSpeech(s) /\ s.end_time # 0

FilterAndSort(segs) == SortByStart(SelectSeq(segs, Included))

\* the two 'continue' tests at the top of the loop body
NoAudioFile(s) == ~s.has_audio

BadStatus(s) == ~s.success \/ s.status = "error" \/ s.status = "no_speech"

\* silence from the running time up to the start of the segment
GapBefore(cur, s) ==
    IF cur < s.start_time THEN <<Silent(s.start_time - cur)>> ELSE <<>>

\* silence from the running time up to the end of the video
TrailingSilence(cur, vdur) ==
    IF cur < vdur THEN <<Silent(vdur - cur)>> ELSE <<>>

\* no file at output_path
NoOutputFile == [video |-> 0, audio |-> NoAudio, vcodec |-> "none", pad |-> 0]

\* video.without_audio() written with codec libx264
SilentVideo(vdur) ==
    [video |-> vdur, audio |-> NoAudio, vcodec |-> "libx264", pad |-> 0]

\* the test on what _combine_translated_audio returned: a track that exists
\* goes to the FFmpeg merge, None goes to the export without audio
AfterCombine_Abort(res) == IF res = "track" THEN "merge" ELSE "done"

AfterCombine(res) == IF res = "track" THEN "merge" ELSE "export"

PInitN(maxn) ==
    /\ segments \in SegmentInputs(maxn)
    /\ orig_duration \in {LastEnd(segments) + t : t \in TailDurs}
    /\ adjust_video_speed \in BOOLEAN
    /\ detected \in OrigProbes
    /\ first_probe \in FirstProbes
    /\ LET sp == FilterAndSort(segments)
           atZero == sp # <<>> /\ sp[1].start_time = 0
       IN /\ detected # 0 => atZero
          /\ first_probe # -1 =>
                /\ atZero
                /\ detected = 0
                /\ sp[1].has_audio
                /\ ~sp[1].load_raises
                /\ sp[1].synth > FirstProbeMinLen
    /\ pc = "start"
    /\ video_duration = 0
    /\ speech_segments = <<>>
    /\ audio_segments = <<>>
    /\ current_time = 0
    /\ successful_segments = 0
    /\ idx = 1
    /\ final_audio = <<>>
    /\ result = "pending"
    /\ output = NoOutputFile
    /\ returncode = -1
    /\ returned = "pending"

PInit == PInitN(MaxSegs)

PIdle ==
    /\ segments = <<>>
    /\ orig_duration = 0
    /\ adjust_video_speed = FALSE
    /\ detected = 0
    /\ first_probe = -1
    /\ pc = "idle"
    /\ video_duration = 0
    /\ speech_segments = <<>>
    /\ audio_segments = <<>>
    /\ current_time = 0
    /\ successful_segments = 0
    /\ idx = 1
    /\ final_audio = <<>>
    /\ result = "pending"
    /\ output = NoOutputFile
    /\ returncode = -1
    /\ returned = "pending"

\* create_final_video up to the call of _combine_translated_audio
StartFinalVideo ==
    /\ pc = "start"
    /\ video_duration' = IF adjust_video_speed
                         THEN AdjustedDuration(segments, orig_duration)
                         ELSE orig_duration
    /\ LET segments_with_audio ==
               Cardinality({i \in 1..Len(segments) : segments[i].has_audio})
       IN pc' = IF segments = <<>> \/ segments_with_audio = 0
                THEN "export" ELSE "filter"
    /\ UNCHANGED <<segments, orig_duration, adjust_video_speed, detected,
                   first_probe, speech_segments, audio_segments, current_time,
                   successful_segments, idx, final_audio, result, output,
                   returncode, returned>>
    /\ UNCHANGED <<mvars, vvars, dvars, bvars, jvars,
                   avars, rvars, wvars>>

FilterSpeech ==
    /\ pc = "filter"
    /\ speech_segments' = FilterAndSort(segments)
    /\ IF speech_segments' = <<>>
       THEN result' = "none" /\ pc' = AfterCombine("none")
       ELSE result' = result /\ pc' = "lead"
    /\ UNCHANGED <<segments, orig_duration, adjust_video_speed, detected,
                   first_probe, video_duration, audio_segments, current_time,
                   successful_segments, idx, final_audio, output, returncode,
                   returned>>
    /\ UNCHANGED <<mvars, vvars, dvars, bvars, jvars,
                   avars, rvars, wvars>>

LeadingSilence ==
    /\ pc = "lead"
    /\ LET first_segment_start == speech_segments[1].start_time
           detected_silence_duration ==
               IF first_segment_start = 0 THEN detected ELSE 0
       IN IF detected_silence_duration > 0
          THEN /\ audio_segments' = <<Silent(detected_silence_duration)>>
               /\ current_time' = detected_silence_duration
          ELSE IF first_segment_start = 0
          THEN IF first_probe # -1
               THEN /\ audio_segments' = <<Silent(first_probe)>>
                    /\ current_time' = first_probe
               ELSE UNCHANGED <<audio_segments, current_time>>
          ELSE IF first_segment_start > 0
          THEN /\ audio_segments' = <<Silent(first_segment_start)>>
               /\ current_time' = first_segment_start
          ELSE UNCHANGED <<audio_segments, current_time>>
    /\ idx' = 1
    /\ pc' = "loop"
    /\ UNCHANGED <<segments, orig_duration, adjust_video_speed, detected,
                   first_probe, video_duration, speech_segments,
                   successful_segments, final_audio, result, output,
                   returncode, returned>>
    /\ UNCHANGED <<mvars, vvars, dvars, bvars, jvars,
                   avars, rvars, wvars>>

SkipUnchanged ==
    /\ idx' = idx + 1
    /\ UNCHANGED <<segments, orig_duration, adjust_video_speed, detected,
                   first_probe, pc, video_duration, speech_segments,
                   audio_segments, current_time, successful_segments,
                   final_audio, result, output, returncode, returned>>
    /\ UNCHANGED <<mvars, vvars, dvars, bvars, jvars,
                   avars, rvars, wvars>>

SkipNoFile ==
    /\ pc = "loop" /\ idx <= Len(speech_segments)
    /\ NoAudioFile(speech_segments[idx])
    /\ SkipUnchanged

SkipStatus ==
    /\ pc = "loop" /\ idx <= Len(speech_segments)
    /\ ~NoAudioFile(speech_segments[idx])
    /\ BadStatus(speech_segments[idx])
    /\ SkipUnchanged

LoadRaises ==
    /\ pc = "loop" /\ idx <= Len(speech_segments)
    /\ ~NoAudioFile(speech_segments[idx])
    /\ ~BadStatus(speech_segments[idx])
    /\ speech_segments[idx].load_raises
    /\ SkipUnchanged

AppendSegment ==
    /\ pc = "loop" /\ idx <= Len(speech_segments)
    /\ LET s == speech_segments[idx]
       IN /\ ~NoAudioFile(s)
          /\ ~BadStatus(s)
          /\ ~s.load_raises
          /\ audio_segments' =
                 audio_segments \o GapBefore(current_time, s) \o <<Speech(s)>>
          /\ current_time' = s.end_time
    /\ successful_segments' = successful_segments + 1
    /\ idx' = idx + 1
    /\ UNCHANGED <<segments, orig_duration, adjust_video_speed, detected,
                   first_probe, pc, video_duration, speech_segments,
                   final_audio, result, output, returncode, returned>>
    /\ UNCHANGED <<mvars, vvars, dvars, bvars, jvars,
                   avars, rvars, wvars>>

FinishCombine ==
    /\ pc = "loop" /\ idx > Len(speech_segments)
    /\ IF successful_segments = 0 \/ audio_segments = <<>>
       THEN /\ result' = "none"
            /\ UNCHANGED final_audio
       ELSE /\ final_audio' =
                  audio_segments \o TrailingSilence(current_time, video_duration)
            /\ result' = "track"
    /\ pc' = AfterCombine(result')
    /\ UNCHANGED <<segments, orig_duration, adjust_video_speed, detected,
                   first_probe, video_duration, speech_segments,
                   audio_segments, current_time, successful_segments, idx,
                   output, returncode, returned>>
    /\ UNCHANGED <<mvars, vvars, dvars, bvars, jvars,
                   avars, rvars, wvars>>

\* an exception after the loop (final_audio.export, the normalisation)
\* is caught by the except clause of _combine_translated_audio, which
\* returns None
CombineRaises ==
    /\ pc = "loop" /\ idx > Len(speech_segments)
    /\ successful_segments > 0 /\ audio_segments # <<>>
    /\ result' = "none"
    /\ pc' = AfterCombine("none")
    /\ UNCHANGED <<segments, orig_duration, adjust_video_speed, detected,
                   first_probe, video_duration, speech_segments,
                   audio_segments, current_time, successful_segments, idx,
                   final_audio, output, returncode, returned>>
    /\ UNCHANGED <<mvars, vvars, dvars, bvars, jvars,
                   avars, rvars, wvars>>

\* the FFmpeg merge of the silent video with the track: return code 0 and
\* the file is there.  (The file_size > 1000 test before it passes for every
\* track the model builds: a track holds at least 2 s of samples.)
MergeFinal ==
    /\ pc = "merge"
    /\ returncode' = 0
    /\ output' = VPMerge(SumLen(final_audio), video_duration)
    /\ returned' = "true"
    /\ pc' = "done"
    /\ UNCHANGED <<segments, orig_duration, adjust_video_speed, detected,
                   first_probe, video_duration, speech_segments,
                   audio_segments, current_time, successful_segments, idx,
                   final_audio, result>>
    /\ UNCHANGED <<mvars, vvars, dvars, bvars, jvars,
                   avars, rvars, wvars>>

\* FFmpeg ends with a non-zero code: the temporary silent video is renamed
\* to output_path and True is returned
MergeFails ==
    /\ pc = "merge"
    /\ returncode' = 1
    /\ output' = SilentVideo(video_duration)
    /\ returned' = "true"
    /\ pc' = "done"
    /\ UNCHANGED <<segments, orig_duration, adjust_video_speed, detected,
                   first_probe, video_duration, speech_segments,
                   audio_segments, current_time, successful_segments, idx,
                   final_audio, result>>
    /\ UNCHANGED <<mvars, vvars, dvars, bvars, jvars,
                   avars, rvars, wvars>>

\* FFmpeg ends with code 0 but output_path does not exist: control falls to
\* final_video.write_videofile with final_video never assigned, the
\* UnboundLocalError reaches the outer except clause, which returns False
MergeLeavesNoFile ==
    /\ pc = "merge"
    /\ returncode' = 0
    /\ returned' = "false"
    /\ pc' = "done"
    /\ UNCHANGED <<segments, orig_duration, adjust_video_speed, detected,
                   first_probe, video_duration, speech_segments,
                   audio_segments, current_time, successful_segments, idx,
                   final_audio, result, output>>
    /\ UNCHANGED <<mvars, vvars, dvars, bvars, jvars,
                   avars, rvars, wvars>>

\* an exception inside the FFmpeg block (writing the silent video, starting
\* the process): final_video = video.without_audio()
MergeRaises ==
    /\ pc = "merge"
    /\ pc' = "export"
    /\ UNCHANGED <<segments, orig_duration, adjust_video_speed, detected,
                   first_probe, video_duration, speech_segments,
                   audio_segments, current_time, successful_segments, idx,
                   final_audio, result, output, returncode, returned>>
    /\ UNCHANGED <<mvars, vvars, dvars, bvars, jvars,
                   avars, rvars, wvars>>

\* final_video = video.without_audio(), then write_videofile and return True
ExportSilent ==
    /\ pc = "export"
    /\ output' = SilentVideo(video_duration)
    /\ returned' = "true"
    /\ pc' = "done"
    /\ UNCHANGED <<segments, orig_duration, adjust_video_speed, detected,
                   first_probe, video_duration, speech_segments,
                   audio_segments, current_time, successful_segments, idx,
                   final_audio, result, returncode>>
    /\ UNCHANGED <<mvars, vvars, dvars, bvars, jvars,
                   avars, rvars, wvars>>

(***************************************************************************)
(* Idle values of the other components                                     *)
(***************************************************************************)
MIdle ==
    /\ mA = 0 /\ mV = 0 /\ mRoutine = "idle"
    /\ mOut = NoOutputFile

VIdle ==
    /\ vSegments = <<>> /\ vThreshold = 0 /\ vIdx = 1
    /\ vFiltered = <<>> /\ vLast = <<>>

DIdle ==
    /\ d_audio = <<>> /\ min_duration = 0 /\ silence_segments = <<>>
    /\ sil_i = 1 /\ current_pos = 0 /\ current_speaker = 0
    /\ spk_segments = <<>> /\ used_voices = [male |-> 0, female |-> 0]
    /\ route = "pending" /\ merge_min = 0 /\ merged = <<>> /\ dpc = "idle"

BIdle ==
    /\ bpc = "idle" /\ block_segments = <<>> /\ block_i = 1
    /\ video_clips = <<>> /\ block_counter = 1 /\ final_clips = <<>>
    /\ blocks_returned = "pending"

JIdle ==
    /\ spk_file = <<>> /\ vid_file = <<>>
    /\ concat_file = [owner |-> 0, files |-> <<>>]
    /\ jNum = <<>> /\ jpc = <<>> /\ jk = <<>> /\ jList = <<>>
    /\ jGenderIn = <<>> /\ jOut = <<>> /\ jRc = <<>>

AIdle ==
    /\ outcomes = <<>> /\ runs = <<>> /\ remerged = <<>> /\ apc = "idle"

RIdle ==
    /\ r_segment = <<>> /\ r_adjust = <<>> /\ r_block = <<>> /\ rpc = {}

WIdle ==
    /\ active_tasks = {} /\ task_status = <<>> /\ input_file = <<>>
    /\ output_file = <<>> /\ worker = <<>> /\ deleting = {}

Init == PInit /\ MIdle /\ VIdle /\ DIdle /\ BIdle /\ JIdle /\ AIdle /\ RIdle
    /\ WIdle

Next ==
    \/ StartFinalVideo
    \/ FilterSpeech
    \/ LeadingSilence
    \/ SkipNoFile
    \/ SkipStatus
    \/ LoadRaises
    \/ AppendSegment
    \/ FinishCombine
    \/ CombineRaises
    \/ MergeFinal
    \/ MergeFails
    \/ MergeLeavesNoFile
    \/ MergeRaises
    \/ ExportSilent

Spec == Init /\ [][Next]_vars

\* the same machine started from the shorter segment lists, for the
\* properties of the ways create_final_video ends
InitFinal ==
    PInitN(MaxFinalSegs) /\ MIdle /\ VIdle /\ DIdle /\ BIdle /\ JIdle /\ AIdle /\ RIdle
    /\ WIdle

SpecFinal == InitFinal /\ [][Next]_vars

(***************************************************************************)
(* Reading the track                                                       *)
(***************************************************************************)
Duration(s) == s.end_time - s.start_time

\* offset in the track at which piece k begins
Offset(track, k) == SumLen(SubSeq(track, 1, k - 1))

SpeechIdx(track) == {k \in 1..Len(track) : track[k].kind = "speech"}

AppendedIds(track) == {track[k].seg : k \in SpeechIdx(track)}

\* _combine_translated_audio returned None although segments were appended:
\* only its except clause does that
CombineRaised == result = "none" /\ successful_segments > 0

\* the segments the loop appends: included, with a file, a good status and
\* a loadable file
Appendable(s) ==
    Included(s) /\ ~NoAudioFile(s) /\ ~BadStatus(s) /\ ~s.load_raises

\* included by the VAD filter but skipped inside the loop
Skipped(s) == Included(s) /\ ~Appendable(s)

\* the speech pieces that enclose the place of segment x in the track
PieceBefore(track, x) ==
    LET before == {k \in SpeechIdx(track) :
                      segments[track[k].seg].start_time < x.start_time}
    IN IF before = {} THEN 0
       ELSE CHOOSE k \in before : \A j \in before : j <= k

PieceAfter(track, x) ==
    LET after == {k \in SpeechIdx(track) :
                     segments[track[k].seg].start_time > x.start_time}
    IN IF after = {} THEN Len(track) + 1
       ELSE CHOOSE k \in after : \A j \in after : k <= j

\* silence the track holds between those two pieces
SilenceAround(track, x) ==
    SumLen(SubSeq(track, PieceBefore(track, x) + 1, PieceAfter(track, x) - 1))

\* original durations of the segments without audio of their own that share
\* the place of x
RECURSIVE SilentDurations(_, _, _)
SilentDurations(track, x, i) ==
    IF i = 0 THEN 0
    ELSE SilentDurations(track, x, i - 1) +
         (IF /\ segments[i].id \notin AppendedIds(track)
             /\ PieceBefore(track, segments[i]) = PieceBefore(track, x)
             /\ PieceAfter(track, segments[i]) = PieceAfter(track, x)
          THEN Duration(segments[i]) ELSE 0)

\* sum of the original segment durations and of the gaps the timeline
\* implies before, between and after them
RECURSIVE TimelineSum(_, _, _)
TimelineSum(segs, cur, vdur) ==
    IF segs = <<>> THEN (IF cur < vdur THEN vdur - cur ELSE 0)
    ELSE (Head(segs).start_time - cur) + Duration(Head(segs))
         + TimelineSum(Tail(segs), Head(segs).end_time, vdur)

(***************************************************************************)
(* C1. Every speech piece of the track begins at the start_time of its     *)
(* segment.                                                                *)
(***************************************************************************)
C1_SegmentsAtOriginalStart ==
    result = "track" =>
        \A k \in SpeechIdx(final_audio) :
            Offset(final_audio, k) = segments[final_audio[k].seg].start_time

(***************************************************************************)
(* C3. A returned track is at least as long as the video_duration given.   *)
(***************************************************************************)
C3_TrackCoversVideo ==
    result = "track" => SumLen(final_audio) >= video_duration

(***************************************************************************)
(* C4. Original durations plus inferred gaps are within 0.1 s of           *)
(* max(video_duration, length of the reconciled track).                    *)
(***************************************************************************)
C4_TimelineSumMatches ==
    result = "track" =>
        Abs(TimelineSum(segments, 0, video_duration)
            - Max(video_duration, SumLen(final_audio))) <= 1

(***************************************************************************)
(* C5. A non-speech segment has no piece of its own in the track, and the  *)
(* silence at its place is at least as long as the original durations of   *)
(* the silent segments there.                                              *)
(***************************************************************************)
C5_NonSpeechKeptAsSilence ==
    result = "track" =>
        \A i \in 1..Len(segments) :
            IsNonSpeech(segments[i]) =>
                /\ segments[i].id \notin AppendedIds(final_audio)
                /\ SilenceAround(final_audio, segments[i]) >=
                       SilentDurations(final_audio, segments[i], Len(segments))

(***************************************************************************)
(* C10. A skipped segment is absorbed: the appendable segments are all     *)
(* appended in order, a track is returned, and the skipped segment's place *)
(* holds silence of at least its original duration.                        *)
(***************************************************************************)
AppendedInOrder(track) ==
    /\ AppendedIds(track) =
           {segments[i].id : i \in {j \in 1..Len(segments) :
                                        Appendable(segments[j])}}
    /\ \A k1, k2 \in SpeechIdx(track) :
           k1 < k2 => segments[track[k1].seg].start_time
                          < segments[track[k2].seg].start_time

C10_SkippedSegmentsAbsorbed ==
    (/\ pc \in {"merge", "export", "done"}
     /\ speech_segments # <<>>
     /\ ~CombineRaised) =>
        /\ (\E i \in 1..Len(segments) : Appendable(segments[i]))
               => result = "track"
        /\ result = "track" =>
              /\ AppendedInOrder(final_audio)
              /\ \A i \in 1..Len(segments) :
                    Skipped(segments[i]) =>
                        SilenceAround(final_audio, segments[i]) >=
                            SilentDurations(final_audio, segments[i],
                                            Len(segments))

(***************************************************************************)
(* C11. When audio assembly fails or yields no track (an exception inside  *)
(* _combine_translated_audio, no speech segment after the VAD filter, no   *)
(* segment appended), create_final_video does not abort: it goes on to the *)
(* export and ends having written the video without an audio track.        *)
(***************************************************************************)
C11_NoTrackExportsSilentVideo ==
    result = "none" =>
        /\ pc \in {"export", "done"}
        /\ pc = "export" => returned = "pending"
        /\ pc = "done" => /\ returned = "true"
                          /\ output = SilentVideo(video_duration)

\* the exception case: segments were appended, the track was lost, the
\* silent video was written
C11_Witness ==
    /\ CombineRaised
    /\ pc = "done"
    /\ returned = "true"
    /\ output = SilentVideo(video_duration)

\* the two other cases of C11: the VAD filter left nothing; the loop
\* appended nothing
C11_WitnessNoSpeech ==
    /\ pc = "done" /\ result = "none"
    /\ segments # <<>> /\ speech_segments = <<>>
    /\ output = SilentVideo(video_duration)

C11_WitnessNoneAppended ==
    /\ pc = "done" /\ result = "none"
    /\ speech_segments # <<>> /\ successful_segments = 0
    /\ output = SilentVideo(video_duration)

(***************************************************************************)
(* C12. When the FFmpeg merge ends with a non-zero code, create_final_video*)
(* reports failure and there is no file at output_path.                    *)
(***************************************************************************)
C12_MuxFailureIsFatal ==
    (pc = "done" /\ returncode = 1) =>
        /\ returned = "false"
        /\ output = NoOutputFile

(***************************************************************************)
(* SpecMerge: the final-merge routines applied to measured durations       *)
(***************************************************************************)
MergeVideoDurs == {40, 100, 200}
MergeDeltas == {-20, -6, -5, -4, -1, 0, 1, 2, 4, 5, 6, 32}

\* adjust_video_for_audio calls _simple_combine when the stretch factor
\* audio_duration / video_duration is within 2 % of 1.0 (1.0 when the video
\* duration is 0)
CloseEnoughToCombine(A, V) ==
    IF V > 0 THEN 50 * Abs(A - V) < V ELSE TRUE

MInit ==
    /\ mV \in MergeVideoDurs
    /\ mA \in {mV + d : d \in MergeDeltas}
    /\ mRoutine = "pending"
    /\ mOut = NoOutputFile

VPCreateFinalVideo ==
    /\ mRoutine = "pending"
    /\ mRoutine' = "VideoProcessor.create_final_video"
    /\ mOut' = VPMerge(mA, mV)
    /\ UNCHANGED <<mA, mV, pvars, vvars, dvars, bvars, jvars,
                   avars, rvars, wvars>>

FFmpegMergeAudio ==
    /\ mRoutine = "pending"
    /\ \E remove_original_audio \in BOOLEAN :
          /\ mRoutine' = IF remove_original_audio
                         THEN "FFmpegProcessor.merge_audio"
                         ELSE "FFmpegProcessor.merge_audio/mix"
          /\ mOut' = MergeAudio(mA, mV, remove_original_audio)
    /\ UNCHANGED <<mA, mV, pvars, vvars, dvars, bvars, jvars,
                   avars, rvars, wvars>>

VTCreateFinalVideo ==
    /\ mRoutine = "pending"
    /\ mRoutine' = "VideoTranslator.create_final_video"
    /\ mOut' = VTMerge(mA, mV)
    /\ UNCHANGED <<mA, mV, pvars, vvars, dvars, bvars, jvars,
                   avars, rvars, wvars>>

SimpleCombineCall ==
    /\ mRoutine = "pending"
    /\ CloseEnoughToCombine(mA, mV)
    /\ mRoutine' = "VideoTimeAdjuster._simple_combine"
    /\ mOut' = SimpleCombine(mA, mV)
    /\ UNCHANGED <<mA, mV, pvars, vvars, dvars, bvars, jvars,
                   avars, rvars, wvars>>

InitMerge == PIdle /\ MInit /\ VIdle /\ DIdle /\ BIdle /\ JIdle /\ AIdle /\ RIdle
    /\ WIdle

NextMerge ==
    \/ VPCreateFinalVideo
    \/ FFmpegMergeAudio
    \/ VTCreateFinalVideo
    \/ SimpleCombineCall

SpecMerge == InitMerge /\ [][NextMerge]_vars

(***************************************************************************)
(* C2. None of the three final-merge routines shortens the audio: the      *)
(* audio of the output is at least as long as the audio handed in.         *)
(***************************************************************************)
C2_NoRoutineCutsAudio ==
    mRoutine \in {"VideoProcessor.create_final_video",
                  "VideoTranslator.create_final_video",
                  "VideoTimeAdjuster._simple_combine"} =>
        mOut.audio >= mA

MaxVadSegs == 2

Thresholds == {0, 5000, 6000, 10000}

MetricInputs ==
    [rms_energy : {5, 100}, spectral_centroid : {500, 2500, 9000},
     speech_frequency_ratio : {200, 800}, mfcc_variance : {3, 20},
     duration : {20}]
    \cup
    {[rms_energy |-> 100, spectral_centroid |-> 9000,
      speech_frequency_ratio |-> 400, mfcc_variance |-> 20, duration |-> 3]}

\* what the analysis of a file can meet
AudioInputs ==
    {[kind |-> "load_error", metrics |-> <<>>],
     [kind |-> "empty", metrics |-> <<>>],
     [kind |-> "metrics_error", metrics |-> <<>>]}
    \cup {[kind |-> "ok", metrics |-> m] : m \in MetricInputs}

\* _calculate_speech_score
CalculateSpeechScore(m) ==
    LET energy == IF m.rms_energy > 10
                  THEN Min(2000, 20 * m.rms_energy) ELSE 0
        spectral == IF 1000 <= m.spectral_centroid
                       /\ m.spectral_centroid <= 8000
                    THEN Max(0, 2500 - Abs(m.spectral_centroid - 2500)) ELSE 0
        frequency == IF m.speech_frequency_ratio >= 300
                     THEN Min(3000, (3000 * m.speech_frequency_ratio) \div 800)
                     ELSE 0
        mfcc == IF m.mfcc_variance > 5
                THEN Min(1500, 75 * m.mfcc_variance) ELSE 0
        duration == IF m.duration >= 5
                    THEN Min(1000, 50 * m.duration) ELSE 0
    IN Min(10000, energy + spectral + frequency + mfcc + duration)

\* _get_decision_reason: the failed sub-checks it lists
DecisionReason(m, score, threshold) ==
    IF score < threshold
    THEN [verdict |-> "not_speech",
          failed |->
              (IF m.rms_energy < 10 THEN {"low_energy"} ELSE {})
              \cup (IF m.spectral_centroid < 1000 THEN {"low_centroid"}
                    ELSE IF m.spectral_centroid > 8000 THEN {"high_centroid"}
                    ELSE {})
              \cup (IF m.speech_frequency_ratio < 300
                    THEN {"few_speech_frequencies"} ELSE {})
              \cup (IF m.duration < 5 THEN {"short_segment"} ELSE {})]
    ELSE [verdict |-> "speech", failed |-> {}]

\* variant of ErrorVerdict that compares the default confidence with the
\* threshold
ErrorVerdict_ByThreshold(threshold) ==
    [is_speech |-> 5000 >= threshold, confidence |-> 5000,
     reason |-> [verdict |-> "error", failed |-> {}]]

\* what is_speech_segment returns when a step raises
ErrorVerdict(threshold) ==
    [is_speech |-> TRUE, confidence |-> 5000,
     reason |-> [verdict |-> "error", failed |-> {}]]

\* variant of IsSpeechSegment that wants the score above the threshold
IsSpeechSegment_Strict(audio, threshold) ==
    IF audio.kind \in {"load_error", "metrics_error"}
    THEN ErrorVerdict(threshold)
    ELSE IF audio.kind = "empty"
    THEN [is_speech |-> FALSE, confidence |-> 0,
          reason |-> [verdict |-> "empty_audio", failed |-> {}]]
    ELSE LET speech_score == CalculateSpeechScore(audio.metrics)
         IN [is_speech |-> speech_score > threshold,
             confidence |-> speech_score,
             reason |-> DecisionReason(audio.metrics, speech_score, threshold)]

\* is_speech_segment
IsSpeechSegment(audio, threshold) ==
    IF audio.kind \in {"load_error", "metrics_error"}
    THEN ErrorVerdict(threshold)
    ELSE IF audio.kind = "empty"
    THEN [is_speech |-> FALSE, confidence |-> 0,
          reason |-> [verdict |-> "empty_audio", failed |-> {}]]
    ELSE LET speech_score == CalculateSpeechScore(audio.metrics)
         IN [is_speech |-> speech_score >= threshold,
             confidence |-> speech_score,
             reason |-> DecisionReason(audio.metrics, speech_score, threshold)]

\* the record filter_speech_segments appends for a segment
WithVad(seg, vad_result) ==
    [id |-> seg.id, start_time |-> seg.start_time, end_time |-> seg.end_time,
     path_exists |-> seg.path_exists, audio |-> seg.audio,
     vad_is_speech |-> vad_result.is_speech,
     vad_confidence |-> vad_result.confidence,
     vad_reason |-> vad_result.reason,
     status |-> IF vad_result.is_speech THEN seg.status ELSE "no_speech_vad"]

\* a segment whose file is missing, or a file and what its analysis meets
VadFileInputs ==
    {[path_exists |-> FALSE, audio |-> [kind |-> "load_error", metrics |-> <<>>]]}
    \cup {[path_exists |-> TRUE, audio |-> a] : a \in AudioInputs}

VadSegmentInputs(maxn) == UNION {[1..n -> VadFileInputs] : n \in 0..maxn}

VInit ==
    /\ \E raw \in VadSegmentInputs(MaxVadSegs) :
          /\ vSegments =
                 [i \in 1..Len(raw) |->
                     [id |-> i, start_time |-> (i - 1) * 40,
                      end_time |-> i * 40, status |-> "segmented",
                      path_exists |-> raw[i].path_exists,
                      audio |-> raw[i].audio]]
    /\ vThreshold \in Thresholds
    /\ vIdx = 1
    /\ vFiltered = <<>>
    /\ vLast = <<>>

\* one turn of the loop of filter_speech_segments
VadMissingFile ==
    /\ vIdx <= Len(vSegments)
    /\ ~vSegments[vIdx].path_exists
    /\ vIdx' = vIdx + 1
    /\ UNCHANGED <<vSegments, vThreshold, vFiltered, vLast, pvars, mvars,
                   dvars, bvars, jvars,
                   avars, rvars, wvars>>

VadSpeech ==
    /\ vIdx <= Len(vSegments)
    /\ vSegments[vIdx].path_exists
    /\ LET vad_result == IsSpeechSegment(vSegments[vIdx].audio, vThreshold)
       IN /\ vad_result.is_speech
          /\ vFiltered' = Append(vFiltered, WithVad(vSegments[vIdx], vad_result))
          /\ vLast' = <<[audio |-> vSegments[vIdx].audio,
                         threshold |-> vThreshold, result |-> vad_result]>>
    /\ vIdx' = vIdx + 1
    /\ UNCHANGED <<vSegments, vThreshold, pvars, mvars, dvars, bvars,
                   jvars,
                   avars, rvars, wvars>>

VadNonSpeech ==
    /\ vIdx <= Len(vSegments)
    /\ vSegments[vIdx].path_exists
    /\ LET vad_result == IsSpeechSegment(vSegments[vIdx].audio, vThreshold)
       IN /\ ~vad_result.is_speech
          /\ vFiltered' = Append(vFiltered, WithVad(vSegments[vIdx], vad_result))
          /\ vLast' = <<[audio |-> vSegments[vIdx].audio,
                         threshold |-> vThreshold, result |-> vad_result]>>
    /\ vIdx' = vIdx + 1
    /\ UNCHANGED <<vSegments, vThreshold, pvars, mvars, dvars, bvars,
                   jvars,
                   avars, rvars, wvars>>

InitVAD == PIdle /\ MIdle /\ VInit /\ DIdle /\ BIdle /\ JIdle /\ AIdle /\ RIdle
    /\ WIdle

NextVAD ==
    \/ VadMissingFile
    \/ VadSpeech
    \/ VadNonSpeech

SpecVAD == InitVAD /\ [][NextVAD]_vars

(***************************************************************************)
(* C8. filter_speech_segments returns one record per input segment, in     *)
(* input order, with id, start_time and end_time unchanged.                *)
(***************************************************************************)
C8_OneRecordPerSegment ==
    vIdx > Len(vSegments) =>
        /\ Len(vFiltered) = Len(vSegments)
        /\ \A i \in 1..Len(vSegments) :
              i <= Len(vFiltered) =>
                  /\ vFiltered[i].id = vSegments[i].id
                  /\ vFiltered[i].start_time = vSegments[i].start_time
                  /\ vFiltered[i].end_time = vSegments[i].end_time

(***************************************************************************)
(* C9. When a step of is_speech_segment raises, the verdict is speech with *)
(* confidence 0.5, whatever the threshold.                                 *)
(***************************************************************************)
C9_FailureDefaultsToSpeech ==
    \A k \in 1..Len(vLast) :
        vLast[k].audio.kind \in {"load_error", "metrics_error"} =>
            /\ vLast[k].result.is_speech = TRUE
            /\ vLast[k].result.confidence = 5000

C9_Witness ==
    /\ vLast # <<>>
    /\ vLast[1].audio.kind = "metrics_error"
    /\ vLast[1].threshold = 10000
    /\ vLast[1].result.is_speech
    /\ Len(vFiltered) > 0
    /\ vFiltered[Len(vFiltered)].status # "no_speech_vad"

(***************************************************************************)
(* C25 as claimed. Whatever is_speech_segment returns, is_speech is true   *)
(* exactly when the confidence returned is at least the threshold.         *)
(***************************************************************************)
C25_SpeechIffConfidenceReachesThreshold ==
    \A k \in 1..Len(vLast) :
        vLast[k].result.is_speech
            <=> vLast[k].result.confidence >= vLast[k].threshold

(***************************************************************************)
(* C25 amended. A result computed from the metrics of the file has         *)
(* is_speech true exactly when its confidence, the score, is at least the  *)
(* threshold.  The two results that are not computed from a score are      *)
(* fixed: an empty file is not speech with confidence 0, and a step that   *)
(* raises gives speech with confidence 0.5, both whatever the threshold.   *)
(***************************************************************************)
C25_SpeechIffScoreReachesThreshold ==
    \A k \in 1..Len(vLast) :
        LET res == vLast[k].result
        IN /\ vLast[k].audio.kind = "ok" =>
                 /\ res.confidence = CalculateSpeechScore(vLast[k].audio.metrics)
                 /\ res.is_speech <=> res.confidence >= vLast[k].threshold
           /\ vLast[k].audio.kind = "empty" =>
                 ~res.is_speech /\ res.confidence = 0
           /\ vLast[k].audio.kind \in {"load_error", "metrics_error"} =>
                 res.is_speech /\ res.confidence = 5000

\* a file whose score is exactly the threshold 1.0 is speech
C25_Witness ==
    /\ vLast # <<>>
    /\ vLast[1].audio.kind = "ok"
    /\ vLast[1].threshold = 10000
    /\ vLast[1].result.confidence = 10000
    /\ vLast[1].result.is_speech

(***************************************************************************)
(* SpecDiar: SpeakerDiarization.segment_by_speakers and                    *)
(* merge_short_segments                                                    *)
(*                                                                         *)
(* The audio file is a sequence of pieces, alternately sound and silence;  *)
(* a silent piece lies below every silence_thresh the code uses.           *)
(***************************************************************************)
MaxPieces == 4

SoundLens == {5, 20, 50, 310, 610}    \* 0.5 s, 2 s, 5 s, 31 s, 61 s
SilenceLens == {10, 31}               \* 1 s, 3.1 s
MinDurations == {20, 50}              \* min_speaker_duration: 2 s, 5 s
MergeMinDurations == {50, 100}        \* min_duration of the merge: 5 s, 10 s
Genders == {"male", "female"}

LongPause == 30            \* silence_duration > 3.0
LongSegment == 600         \* segment_duration > 60
LongLastSegment == 300     \* segment_duration > 30, the last segment
FallbackMinSilence == 10   \* min_silence_len=1000
KeepSilence == 5           \* keep_silence=500
FallbackMinChunk == 10     \* chunk_duration > 1.0
FallbackSilenceAfter == 5  \* 'silence_after': 0.5

AudioOf(n, silenceFirst, snd, sil) ==
    [i \in 1..n |->
        IF (i % 2 = 1) = silenceFirst
        THEN [kind |-> "silence", len |-> sil[i]]
        ELSE [kind |-> "sound", len |-> snd[i]]]

DiarAudioInputs(maxn) ==
    UNION {{AudioOf(n, f, snd, sil) :
                f \in BOOLEAN, snd \in [1..n -> SoundLens],
                sil \in [1..n -> SilenceLens]} : n \in 0..maxn}

\* position at which piece k of the audio begins
PieceStart(a, k) == SumLen(SubSeq(a, 1, k - 1))

\* the three duration buckets of min_silence_len
MinSilenceLen(total_duration) ==
    IF total_duration > 3000 THEN 12
    ELSE IF total_duration > 1200 THEN 10
    ELSE 8

\* pydub detect_silence: the silent stretches of at least min_silence_len,
\* in order, as [start, end]
RECURSIVE DetectSilenceFrom(_, _, _)
DetectSilenceFrom(a, k, min_silence_len) ==
    IF k > Len(a) THEN <<>>
    ELSE (IF a[k].kind = "silence" /\ a[k].len >= min_silence_len
          THEN <<[start |-> PieceStart(a, k),
                  end |-> PieceStart(a, k) + a[k].len]>>
          ELSE <<>>)
         \o DetectSilenceFrom(a, k + 1, min_silence_len)

DetectSilence(a, min_silence_len) == DetectSilenceFrom(a, 1, min_silence_len)

\* a segment dictionary; "absent" and 0 stand for a key the dictionary
\* does not have
Seg(id, st, en, dur, spk, sil) ==
    [id |-> id, start_time |-> st, end_time |-> en, duration |-> dur,
     speaker |-> spk, silence_after |-> sil,
     gender |-> "absent", voice_id |-> "absent", merged_from |-> 0]

\* f"Speaker_{chr(65 + current_speaker)}"
SpeakerLabel(n) == IF n = 0 THEN "Speaker_A" ELSE "Speaker_B"

\* the speaker of a segment that ends at a detected silence
NextSpeaker(emitted, cur, silence_duration, segment_duration) ==
    IF emitted = 0 THEN 0
    ELSE IF silence_duration > LongPause THEN (cur + 1) % 2
    ELSE IF segment_duration > LongSegment THEN (cur + 1) % 2
    ELSE cur

\* the speaker of the segment after the last silence
LastSpeaker(cur, segment_duration) ==
    IF segment_duration > LongLastSegment THEN (cur + 1) % 2 ELSE cur

(***************************************************************************)
(* _fallback_segmentation with pydub split_on_silence                      *)
(***************************************************************************)
\* pydub detect_nonsilent: the stretches between the silent ones
DetectNonsilent(a, min_silence_len) ==
    LET silent == DetectSilence(a, min_silence_len)
        len_seg == SumLen(a)
        n == Len(silent)
        between == [k \in 1..n |->
                       [start |-> IF k = 1 THEN 0 ELSE silent[k - 1].end,
                        end |-> silent[k].start]]
        withTail == IF silent[n].end # len_seg
                    THEN Append(between, [start |-> silent[n].end,
                                          end |-> len_seg])
                    ELSE between
    IN IF n = 0 THEN <<[start |-> 0, end |-> len_seg]>>
       ELSE IF silent[1].start = 0 /\ silent[1].end = len_seg THEN <<>>
       ELSE IF withTail[1] = [start |-> 0, end |-> 0] THEN Tail(withTail)
       ELSE withTail

\* pydub split_on_silence: every non-silent stretch widened by keep_silence
\* on both sides, two widened stretches that overlap meet half way, the
\* result cut to the audio; the lengths of the chunks
SplitOnSilence(a, min_silence_len, keep_silence) ==
    LET ns == DetectNonsilent(a, min_silence_len)
        n == Len(ns)
        padded == [k \in 1..n |-> [start |-> ns[k].start - keep_silence,
                                   end |-> ns[k].end + keep_silence]]
        Cut(k) == (padded[k].end + padded[k + 1].start) \div 2
        fixed == [k \in 1..n |->
                     [start |-> IF k > 1 /\ padded[k].start < padded[k - 1].end
                                THEN Cut(k - 1) ELSE padded[k].start,
                      end |-> IF k < n /\ padded[k + 1].start < padded[k].end
                              THEN Cut(k) ELSE padded[k].end]]
    IN [k \in 1..n |->
           Max(Min(fixed[k].end, SumLen(a)) - Max(fixed[k].start, 0), 0)]

\* f"Speaker_{i % 2 + 1}"
FallbackLabel(i) == IF i % 2 = 0 THEN "Speaker_1" ELSE "Speaker_2"

\* the loop over enumerate(chunks); i counts from 0
RECURSIVE FallbackWalk(_, _, _)
FallbackWalk(chunks, i, cur) ==
    IF i >= Len(chunks) THEN <<>>
    ELSE LET chunk_duration == chunks[i + 1]
         IN (IF chunk_duration > FallbackMinChunk
             THEN <<Seg(i, cur, cur + chunk_duration, chunk_duration,
                        FallbackLabel(i), FallbackSilenceAfter)>>
             ELSE <<>>)
            \o FallbackWalk(chunks, i + 1, cur + chunk_duration)

FallbackSegmentation(a) ==
    FallbackWalk(SplitOnSilence(a, FallbackMinSilence, KeepSilence), 0, 0)

(***************************************************************************)
(* _detect_gender_for_segments and _assign_voice_for_speaker               *)
(***************************************************************************)
VoiceMapping ==
    [male |-> <<"ru-male-1", "ru-male-2", "ru-male-3">>,
     female |-> <<"ru-female-1", "ru-female-2", "ru-female-3">>]

\* the voice _assign_voice_for_speaker returns; the caller's counter of the
\* gender goes up by one with every call
AssignVoice(used, gender) ==
    VoiceMapping[gender][(used[gender] % Len(VoiceMapping[gender])) + 1]

NoGenders == [x \in {} |-> "male"]

\* the loop over the segments; analysis[k] is what _analyze_voice_gender
\* makes of the file of segment k, speaker_genders is the cache
RECURSIVE GenderWalk(_, _, _, _, _)
GenderWalk(segs, k, used, speaker_genders, analysis) ==
    IF k > Len(segs) THEN [segs |-> segs, used |-> used]
    ELSE LET speaker_id == segs[k].speaker
             gender == IF speaker_id \in DOMAIN speaker_genders
                       THEN speaker_genders[speaker_id]
                       ELSE analysis[k]
             voice_id == AssignVoice(used, gender)
         IN GenderWalk([segs EXCEPT ![k].gender = gender,
                                    ![k].voice_id = voice_id],
                       k + 1,
                       [used EXCEPT ![gender] = @ + 1],
                       (speaker_id :> gender) @@ speaker_genders,
                       analysis)

\* variant of DetectGenderForSegments that goes on from the counters the
\* instance holds instead of resetting them
DetectGenderForSegments_NoReset(segs, analysis) ==
    GenderWalk(segs, 1, used_voices, NoGenders, analysis)

DetectGenderForSegments(segs, analysis) ==
    GenderWalk(segs, 1, [male |-> 0, female |-> 0], NoGenders, analysis)

(***************************************************************************)
(* merge_short_segments and _merge_segment_group                           *)
(***************************************************************************)
RECURSIVE SumDuration(_)
SumDuration(group) ==
    IF group = <<>> THEN 0
    ELSE Head(group).duration + SumDuration(Tail(group))

\* the merged dictionary has the keys of the return statement only
MergeSegmentGroup_Span(group) ==
    LET first == group[1]
        last == group[Len(group)]
    IN [id |-> first.id, start_time |-> first.start_time,
        end_time |-> last.end_time,
        duration |-> last.end_time - first.start_time,
        speaker |-> first.speaker, silence_after |-> last.silence_after,
        gender |-> "absent", voice_id |-> "absent",
        merged_from |-> Len(group)]

\* variant of MergeSegmentGroup that keeps the duration of the first member
MergeSegmentGroup_FirstDuration(group) ==
    LET first == group[1]
        last == group[Len(group)]
    IN [id |-> first.id, start_time |-> first.start_time,
        end_time |-> last.end_time,
        duration |-> first.duration,
        speaker |-> first.speaker, silence_after |-> last.silence_after,
        gender |-> "absent", voice_id |-> "absent",
        merged_from |-> Len(group)]

MergeSegmentGroup(group) ==
    LET first == group[1]
        last == group[Len(group)]
    IN [id |-> first.id, start_time |-> first.start_time,
        end_time |-> last.end_time,
        duration |-> SumDuration(group),
        speaker |-> first.speaker, silence_after |-> last.silence_after,
        gender |-> "absent", voice_id |-> "absent",
        merged_from |-> Len(group)]

EmitGroup(current_group) ==
    IF Len(current_group) > 1 THEN MergeSegmentGroup(current_group)
    ELSE current_group[1]

RECURSIVE MergeWalk(_, _, _, _, _)
MergeWalk(segs, i, current_group, acc, mind) ==
    IF i > Len(segs) THEN Append(acc, EmitGroup(current_group))
    ELSE IF /\ segs[i].speaker = segs[i - 1].speaker
            /\ SumDuration(current_group) + segs[i].duration < mind * 2
         THEN MergeWalk(segs, i + 1, Append(current_group, segs[i]), acc, mind)
         ELSE MergeWalk(segs, i + 1, <<segs[i]>>,
                        Append(acc, EmitGroup(current_group)), mind)

MergeShortSegments(segs, mind) ==
    IF segs = <<>> THEN segs
    ELSE MergeWalk(segs, 2, <<segs[1]>>, <<>>, mind)

(***************************************************************************)
(* Actions of segment_by_speakers                                          *)
(***************************************************************************)
\* recordings of 200 s: three sounds with a pause of 4 s after the first and
\* after the second
ScenarioSounds == {200, 660, 1000}    \* 20 s, 66 s, 100 s
ScenarioPauses == {40}                \* 4 s

ScenarioAInputs ==
    {<<[kind |-> "sound", len |-> a], [kind |-> "silence", len |-> p],
       [kind |-> "sound", len |-> b], [kind |-> "silence", len |-> q],
       [kind |-> "sound", len |-> 2000 - a - p - b - q]>> :
         a \in ScenarioSounds, b \in ScenarioSounds,
         p \in ScenarioPauses, q \in ScenarioPauses}
    \ {<<[kind |-> "sound", len |-> 1000], [kind |-> "silence", len |-> p],
         [kind |-> "sound", len |-> 1000], [kind |-> "silence", len |-> q],
         [kind |-> "sound", len |-> 0 - p - q]>> :
           p \in ScenarioPauses, q \in ScenarioPauses}

DInit ==
    /\ d_audio \in DiarAudioInputs(MaxPieces) \cup ScenarioAInputs
    /\ min_duration \in MinDurations
    /\ silence_segments = <<>>
    /\ sil_i = 1
    /\ current_pos = 0
    /\ current_speaker = 0
    /\ spk_segments = <<>>
    /\ used_voices = [male |-> 0, female |-> 0]
    /\ route = "pending"
    /\ merge_min = 0
    /\ merged = <<>>
    /\ dpc = "start"

\* AudioSegment.from_file and detect_silence
DetectSilences ==
    /\ dpc = "start"
    /\ silence_segments' = DetectSilence(d_audio, MinSilenceLen(SumLen(d_audio)))
    /\ sil_i' = 1
    /\ dpc' = "loop"
    /\ UNCHANGED <<d_audio, min_duration, current_pos, current_speaker,
                   spk_segments, used_voices, route, merge_min, merged>>
    /\ UNCHANGED <<pvars, mvars, vvars, bvars, jvars,
                   avars, rvars, wvars>>

\* one turn of the loop over silence_segments that appends a segment
EmitBeforeSilence ==
    /\ dpc = "loop" /\ sil_i <= Len(silence_segments)
    /\ LET silence_start == silence_segments[sil_i].start
           silence_end == silence_segments[sil_i].end
           segment_duration == silence_start - current_pos
           silence_duration == IF sil_i < Len(silence_segments)
                               THEN silence_end - silence_start ELSE 0
           speaker == NextSpeaker(Len(spk_segments), current_speaker,
                                  silence_duration, segment_duration)
       IN /\ silence_start > current_pos
          /\ segment_duration >= min_duration
          /\ current_speaker' = speaker
          /\ spk_segments' =
                 Append(spk_segments,
                        Seg(Len(spk_segments), current_pos, silence_start,
                            segment_duration, SpeakerLabel(speaker),
                            silence_end - silence_start))
          /\ current_pos' = silence_end
    /\ sil_i' = sil_i + 1
    /\ UNCHANGED <<d_audio, min_duration, silence_segments, used_voices,
                   route, merge_min, merged, dpc>>
    /\ UNCHANGED <<pvars, mvars, vvars, bvars, jvars,
                   avars, rvars, wvars>>

\* one turn of the loop that appends nothing: no sound before the silence,
\* or less of it than min_duration
SkipBeforeSilence ==
    /\ dpc = "loop" /\ sil_i <= Len(silence_segments)
    /\ LET silence_start == silence_segments[sil_i].start
       IN ~(/\ silence_start > current_pos
            /\ silence_start - current_pos >= min_duration)
    /\ current_pos' = silence_segments[sil_i].end
    /\ sil_i' = sil_i + 1
    /\ UNCHANGED <<d_audio, min_duration, silence_segments, current_speaker,
                   spk_segments, used_voices, route, merge_min, merged, dpc>>
    /\ UNCHANGED <<pvars, mvars, vvars, bvars, jvars,
                   avars, rvars, wvars>>

\* the segment after the last silence
LastSegment ==
    /\ dpc = "loop" /\ sil_i > Len(silence_segments)
    /\ LET len_audio == SumLen(d_audio)
           segment_duration == len_audio - current_pos
       IN IF current_pos < len_audio /\ segment_duration >= min_duration
          THEN LET speaker == LastSpeaker(current_speaker, segment_duration)
               IN /\ current_speaker' = speaker
                  /\ spk_segments' =
                         Append(spk_segments,
                                Seg(Len(spk_segments), current_pos, len_audio,
                                    segment_duration, SpeakerLabel(speaker),
                                    0))
          ELSE UNCHANGED <<current_speaker, spk_segments>>
    /\ route' = "silence"
    /\ dpc' = "gender"
    /\ UNCHANGED <<d_audio, min_duration, silence_segments, sil_i,
                   current_pos, used_voices, merge_min, merged>>
    /\ UNCHANGED <<pvars, mvars, vvars, bvars, jvars,
                   avars, rvars, wvars>>

\* _detect_gender_for_segments, then return segments
DetectGender ==
    /\ dpc = "gender"
    /\ \E analysis \in [1..Len(spk_segments) -> Genders] :
          LET r == DetectGenderForSegments(spk_segments, analysis)
          IN /\ spk_segments' = r.segs
             /\ used_voices' = r.used
    /\ dpc' = "returned"
    /\ UNCHANGED <<d_audio, min_duration, silence_segments, sil_i,
                   current_pos, current_speaker, route, merge_min, merged>>
    /\ UNCHANGED <<pvars, mvars, vvars, bvars, jvars,
                   avars, rvars, wvars>>

\* an exception inside the try block (the file cannot be read, a segment
\* cannot be exported): control goes to _fallback_segmentation
SegmentationRaises ==
    /\ dpc \in {"start", "loop"}
    /\ dpc' = "fallback"
    /\ UNCHANGED <<d_audio, min_duration, silence_segments, sil_i,
                   current_pos, current_speaker, spk_segments, used_voices,
                   route, merge_min, merged>>
    /\ UNCHANGED <<pvars, mvars, vvars, bvars, jvars,
                   avars, rvars, wvars>>

\* return self._fallback_segmentation(audio_path)
Fallback ==
    /\ dpc = "fallback"
    /\ spk_segments' = FallbackSegmentation(d_audio)
    /\ route' = "fallback"
    /\ dpc' = "returned"
    /\ UNCHANGED <<d_audio, min_duration, silence_segments, sil_i,
                   current_pos, current_speaker, used_voices, merge_min,
                   merged>>
    /\ UNCHANGED <<pvars, mvars, vvars, bvars, jvars,
                   avars, rvars, wvars>>

\* _fallback_segmentation raises in its turn (the file cannot be read): the
\* exception leaves segment_by_speakers
FallbackRaises ==
    /\ dpc = "fallback"
    /\ route' = "fallback"
    /\ dpc' = "raised"
    /\ UNCHANGED <<d_audio, min_duration, silence_segments, sil_i,
                   current_pos, current_speaker, spk_segments, used_voices,
                   merge_min, merged>>
    /\ UNCHANGED <<pvars, mvars, vvars, bvars, jvars,
                   avars, rvars, wvars>>

\* merge_short_segments applied to what segment_by_speakers returned
MergeShort ==
    /\ dpc = "returned"
    /\ \E mind \in MergeMinDurations :
          /\ merge_min' = mind
          /\ merged' = MergeShortSegments(spk_segments, mind)
    /\ dpc' = "merged"
    /\ UNCHANGED <<d_audio, min_duration, silence_segments, sil_i,
                   current_pos, current_speaker, spk_segments, used_voices,
                   route>>
    /\ UNCHANGED <<pvars, mvars, vvars, bvars, jvars,
                   avars, rvars, wvars>>

InitDiar == PIdle /\ MIdle /\ VIdle /\ DInit /\ BIdle /\ JIdle /\ AIdle /\ RIdle
    /\ WIdle

NextDiar ==
    \/ DetectSilences
    \/ EmitBeforeSilence
    \/ SkipBeforeSilence
    \/ LastSegment
    \/ DetectGender
    \/ SegmentationRaises
    \/ Fallback
    \/ FallbackRaises
    \/ MergeShort

SpecDiar == InitDiar /\ [][NextDiar]_vars

(***************************************************************************)
(* Reading the segment lists                                               *)
(***************************************************************************)
\* end_time = start_time + duration, start times do not go down, no two
\* segments overlap
WellFormedSegments(segs) ==
    /\ \A k \in 1..Len(segs) :
          segs[k].end_time = segs[k].start_time + segs[k].duration
    /\ \A k \in 1..Len(segs) - 1 :
          segs[k].start_time <= segs[k + 1].start_time
    /\ \A j, k \in 1..Len(segs) :
          j < k => segs[j].end_time <= segs[k].start_time

\* the segments follow one another from time 0 without a hole
ContiguousFromZero(segs) ==
    /\ segs # <<>> => segs[1].start_time = 0
    /\ \A k \in 1..Len(segs) - 1 :
          segs[k + 1].start_time = segs[k].end_time

\* the first segment of the group segment i falls into: segment i joins
\* the group of its predecessor when the speaker is the same and the group
\* so far plus the segment stays under twice mind
RECURSIVE GroupStart(_, _, _)
GroupStart(segs, i, mind) ==
    IF i = 1 THEN 1
    ELSE LET g == GroupStart(segs, i - 1, mind)
         IN IF /\ segs[i].speaker = segs[i - 1].speaker
               /\ SumDuration(SubSeq(segs, g, i - 1)) + segs[i].duration
                      < 2 * mind
            THEN g ELSE i

GroupStarts(segs, mind) ==
    {i \in 1..Len(segs) : GroupStart(segs, i, mind) = i}

GroupEnd(segs, g, mind) ==
    CHOOSE e \in g..Len(segs) :
        /\ GroupStart(segs, e, mind) = g
        /\ \A j \in g..Len(segs) : GroupStart(segs, j, mind) = g => j <= e

NthGroup(segs, k, mind) ==
    CHOOSE g \in GroupStarts(segs, mind) :
        Cardinality({h \in GroupStarts(segs, mind) : h <= g}) = k

(***************************************************************************)
(* C13. Every segment list produced by the silence segmentation, by the    *)
(* fallback segmentation and by merge_short_segments has end_time =        *)
(* start_time + duration for every segment, start times that do not go    *)
(* down, and no two segments that overlap.                                 *)
(***************************************************************************)
C13_SegmentsWellFormed ==
    /\ dpc \in {"gender", "returned", "merged"} =>
           WellFormedSegments(spk_segments)
    /\ dpc = "merged" => WellFormedSegments(merged)

(***************************************************************************)
(* C14. Every segment segment_by_speakers returns is labelled Speaker_A or *)
(* Speaker_B, and the first one is Speaker_A.                              *)
(***************************************************************************)
C14_TwoSpeakersFirstIsA ==
    dpc = "returned" =>
        /\ \A k \in 1..Len(spk_segments) :
              spk_segments[k].speaker \in {"Speaker_A", "Speaker_B"}
        /\ spk_segments # <<>> => spk_segments[1].speaker = "Speaker_A"

(***************************************************************************)
(* C15. In the list of the silence segmentation, a segment other than the  *)
(* first has a speaker different from its predecessor's exactly when the   *)
(* predecessor's silence_after is over 3.0 s or the segment's own duration *)
(* is over 60 s; the last segment is no exception.                         *)
(***************************************************************************)
C15_SwitchOnLongPauseOrLongSegment ==
    (route = "silence" /\ dpc \in {"gender", "returned"}) =>
        \A k \in 2..Len(spk_segments) :
            (spk_segments[k].speaker # spk_segments[k - 1].speaker)
            <=> \/ spk_segments[k - 1].silence_after > LongPause
                \/ spk_segments[k].duration > LongSegment

(***************************************************************************)
(* C16. After _detect_gender_for_segments two segments with the same       *)
(* speaker label have the same voice_id.                                   *)
(***************************************************************************)
C16_OneVoicePerSpeaker ==
    (route = "silence" /\ dpc = "returned") =>
        \A j, k \in 1..Len(spk_segments) :
            spk_segments[j].speaker = spk_segments[k].speaker =>
                spk_segments[j].voice_id = spk_segments[k].voice_id

C18_FallbackCoversAudio ==
    /\ dpc = "fallback" => route = "pending"
    /\ route = "fallback" =>
          /\ dpc \in {"returned", "merged"}
          /\ ContiguousFromZero(spk_segments)
          /\ SumDuration(spk_segments) = SumLen(d_audio)

(***************************************************************************)
(* SpecBlocks: create_synchronized_video_blocks followed by                *)
(* combine_video_blocks, beside create_final_video on the same list        *)
(***************************************************************************)
\* the filter of create_synchronized_video_blocks.  A segment of the model
\* without audio has a translated_audio_path whose file is missing: the
\* filter keeps it and the loop skips it.  (With no path at all the filter
\* drops it; no block is written either way.)
BlockIncluded(s) == s.vad_is_speech /\ s.status # "no_speech_vad"

BlockFilterAndSort(segs) == SortByStart(SelectSeq(segs, BlockIncluded))

\* abs(speed_factor - 1.0) > 0.05 with speed_factor = original / translated
BlockRetimed(original_duration, translated_duration) ==
    20 * Abs(original_duration - translated_duration) > translated_duration

\* the block written for a segment: the sub-clip, retimed by speedx to the
\* length of the translated audio when the factor is off by more than 5 %
Block(s, counter) ==
    [seg |-> s.id, start_time |-> s.start_time, counter |-> counter,
     video |-> IF BlockRetimed(Duration(s), s.synth)
               THEN s.synth ELSE Duration(s),
     audio |-> s.synth]

BInit ==
    /\ bpc = "start" /\ block_segments = <<>> /\ block_i = 1
    /\ video_clips = <<>> /\ block_counter = 1 /\ final_clips = <<>>
    /\ blocks_returned = "pending"

BlocksFilter ==
    /\ bpc = "start"
    /\ block_segments' = BlockFilterAndSort(segments)
    /\ block_i' = 1
    /\ bpc' = "loop"
    /\ UNCHANGED <<video_clips, block_counter, final_clips, blocks_returned>>
    /\ UNCHANGED <<pvars, mvars, vvars, dvars, jvars,
                   avars, rvars, wvars>>

\* if not audio_path or not Path(audio_path).exists(): continue
BlockSkipNoFile ==
    /\ bpc = "loop" /\ block_i <= Len(block_segments)
    /\ ~block_segments[block_i].has_audio
    /\ block_i' = block_i + 1
    /\ UNCHANGED <<bpc, block_segments, video_clips, block_counter,
                   final_clips, blocks_returned>>
    /\ UNCHANGED <<pvars, mvars, vvars, dvars, jvars,
                   avars, rvars, wvars>>

\* AudioSegment.from_file raises: the except clause of the loop continues
BlockLoadRaises ==
    /\ bpc = "loop" /\ block_i <= Len(block_segments)
    /\ block_segments[block_i].has_audio
    /\ block_segments[block_i].load_raises
    /\ block_i' = block_i + 1
    /\ UNCHANGED <<bpc, block_segments, video_clips, block_counter,
                   final_clips, blocks_returned>>
    /\ UNCHANGED <<pvars, mvars, vvars, dvars, jvars,
                   avars, rvars, wvars>>

BlockWrite ==
    /\ bpc = "loop" /\ block_i <= Len(block_segments)
    /\ block_segments[block_i].has_audio
    /\ ~block_segments[block_i].load_raises
    /\ video_clips' =
           Append(video_clips, Block(block_segments[block_i], block_counter))
    /\ block_counter' = block_counter + 1
    /\ block_i' = block_i + 1
    /\ UNCHANGED <<bpc, block_segments, final_clips, blocks_returned>>
    /\ UNCHANGED <<pvars, mvars, vvars, dvars, jvars,
                   avars, rvars, wvars>>

\* return video_clips, then combine_video_blocks(video_clips, output_path)
CombineVideoBlocks ==
    /\ bpc = "loop" /\ block_i > Len(block_segments)
    /\ IF video_clips = <<>>
       THEN /\ blocks_returned' = "false"
            /\ UNCHANGED final_clips
       ELSE /\ final_clips' = video_clips
            /\ blocks_returned' = "true"
    /\ bpc' = "done"
    /\ UNCHANGED <<block_segments, block_i, video_clips, block_counter>>
    /\ UNCHANGED <<pvars, mvars, vvars, dvars, jvars,
                   avars, rvars, wvars>>

InitBlocks ==
    PInitN(MaxFinalSegs) /\ MIdle /\ VIdle /\ DIdle /\ BInit /\ JIdle /\ AIdle /\ RIdle
    /\ WIdle

NextBlocks ==
    \/ Next
    \/ BlocksFilter
    \/ BlockSkipNoFile
    \/ BlockLoadRaises
    \/ BlockWrite
    \/ CombineVideoBlocks

SpecBlocks == InitBlocks /\ [][NextBlocks]_vars

\* a speech segment with synthesized audio that can be read
HasBlock(s) == BlockIncluded(s) /\ s.has_audio /\ ~s.load_raises

BlockSegs(clips) == {clips[k].seg : k \in 1..Len(clips)}

(***************************************************************************)
(* C19. The speech-only reconstruction emits one block per speech segment  *)
(* with synthesized audio, in increasing start_time order, and no block for *)
(* a segment whose vad_is_speech is false or whose status is               *)
(* 'no_speech_vad'; _combine_translated_audio for the same list still puts *)
(* that segment's duration into its track as silence.                      *)
(***************************************************************************)
C19_BlocksSkipWhatTheTrackKeepsSilent ==
    /\ bpc = "done" =>
          /\ BlockSegs(final_clips) =
                 {segments[i].id : i \in {j \in 1..Len(segments) :
                                              HasBlock(segments[j])}}
          /\ Len(final_clips) = Cardinality(BlockSegs(final_clips))
          /\ \A k1, k2 \in 1..Len(final_clips) :
                k1 < k2 =>
                    final_clips[k1].start_time < final_clips[k2].start_time
          /\ \A k \in 1..Len(final_clips) :
                ~IsNonSpeech(segments[final_clips[k].seg])
    /\ result = "track" =>
          \A i \in 1..Len(segments) :
              IsNonSpeech(segments[i]) =>
                  SilenceAround(final_audio, segments[i]) >=
                      SilentDurations(final_audio, segments[i], Len(segments))

(***************************************************************************)
(* SpecJobs: two jobs, each started in a thread of its own by the upload   *)
(* handler, run at the same time.  Each job cuts the audio of its video    *)
(* into speaker segments, analyses them, cuts its video into segments and  *)
(* joins them again.  SpeakerDiarization and VideoTimeAdjuster are built   *)
(* with their default config=None.  A file is modelled by the job whose    *)
(* data it holds, 0 when the file does not exist.                          *)
(***************************************************************************)
MaxJobSegs == 2

Jobs == {1, 2}

NoFile == 0

SegIds == 0..(MaxJobSegs - 1)

\* Path(concat_file).unlink(), then the unlink of every segment in turn; the
\* first missing file raises and the bare except ends the clean-up
RECURSIVE UnlinkInTurn(_, _)
UnlinkInTurn(files, list) ==
    IF list = <<>> THEN files
    ELSE IF files[Head(list)] = NoFile THEN files
    ELSE UnlinkInTurn([files EXCEPT ![Head(list)] = NoFile], Tail(list))

\* what FFmpeg's concat reads: the data of every file the list names
ConcatInputs(list_file, files) ==
    [k \in 1..Len(list_file.files) |-> files[list_file.files[k]]]

\* the return code of the concat: the list and every file it names must be
\* there, and the list must name a file
ConcatCode(list_file, files) ==
    IF /\ list_file.owner # NoFile
       /\ list_file.files # <<>>
       /\ \A k \in 1..Len(list_file.files) :
             files[list_file.files[k]] # NoFile
    THEN 0 ELSE 1

JInit ==
    /\ spk_file = [i \in SegIds |-> NoFile]
    /\ vid_file = [i \in SegIds |-> NoFile]
    /\ concat_file = [owner |-> NoFile, files |-> <<>>]
    /\ jNum \in [Jobs -> 1..MaxJobSegs]
    /\ jpc = [j \in Jobs |-> "speaker"]
    /\ jk = [j \in Jobs |-> 0]
    /\ jList = [j \in Jobs |-> <<>>]
    /\ jGenderIn = [j \in Jobs |-> <<>>]
    /\ jOut = [j \in Jobs |-> <<>>]
    /\ jRc = [j \in Jobs |-> -1]

\* _extract_audio_segment: segment.export to /tmp/speaker_segment_{id}.wav
ExportSpeakerSegment ==
    \E j \in Jobs :
        /\ jpc[j] = "speaker"
        /\ spk_file' = [spk_file EXCEPT ![jk[j]] = j]
        /\ IF jk[j] + 1 < jNum[j]
           THEN /\ jk' = [jk EXCEPT ![j] = @ + 1]
                /\ UNCHANGED jpc
           ELSE /\ jk' = [jk EXCEPT ![j] = 0]
                /\ jpc' = [jpc EXCEPT ![j] = "gender"]
        /\ UNCHANGED <<vid_file, concat_file, jNum, jList, jGenderIn, jOut,
                       jRc>>
        /\ UNCHANGED <<pvars, mvars, vvars, dvars, bvars,
                   avars, rvars, wvars>>

\* _analyze_voice_gender(segment['path']): librosa.load of the segment file
AnalyzeSpeakerSegment ==
    \E j \in Jobs :
        /\ jpc[j] = "gender"
        /\ jGenderIn' = [jGenderIn EXCEPT ![j] = Append(@, spk_file[jk[j]])]
        /\ IF jk[j] + 1 < jNum[j]
           THEN /\ jk' = [jk EXCEPT ![j] = @ + 1]
                /\ UNCHANGED jpc
           ELSE /\ jk' = [jk EXCEPT ![j] = 0]
                /\ jpc' = [jpc EXCEPT ![j] = "extract"]
        /\ UNCHANGED <<spk_file, vid_file, concat_file, jNum, jList, jOut,
                       jRc>>
        /\ UNCHANGED <<pvars, mvars, vvars, dvars, bvars,
                   avars, rvars, wvars>>

\* _extract_video_segment: ffmpeg -y writes /tmp/video_segment_{id}.mp4 and
\* the path joins video_segments
ExtractVideoSegment ==
    \E j \in Jobs :
        /\ jpc[j] = "extract"
        /\ vid_file' = [vid_file EXCEPT ![jk[j]] = j]
        /\ jList' = [jList EXCEPT ![j] = Append(@, jk[j])]
        /\ IF jk[j] + 1 < jNum[j]
           THEN /\ jk' = [jk EXCEPT ![j] = @ + 1]
                /\ UNCHANGED jpc
           ELSE /\ jk' = [jk EXCEPT ![j] = 0]
                /\ jpc' = [jpc EXCEPT ![j] = "concat"]
        /\ UNCHANGED <<spk_file, concat_file, jNum, jGenderIn, jOut, jRc>>
        /\ UNCHANGED <<pvars, mvars, vvars, dvars, bvars,
                   avars, rvars, wvars>>

\* _extract_video_segment returns None (non-zero return code): nothing is
\* written, nothing joins video_segments
ExtractVideoSegmentFails ==
    \E j \in Jobs :
        /\ jpc[j] = "extract"
        /\ IF jk[j] + 1 < jNum[j]
           THEN /\ jk' = [jk EXCEPT ![j] = @ + 1]
                /\ UNCHANGED jpc
           ELSE /\ jk' = [jk EXCEPT ![j] = 0]
                /\ jpc' = [jpc EXCEPT ![j] = "concat"]
        /\ UNCHANGED <<spk_file, vid_file, concat_file, jNum, jList,
                       jGenderIn, jOut, jRc>>
        /\ UNCHANGED <<pvars, mvars, vvars, dvars, bvars,
                   avars, rvars, wvars>>

\* open("/tmp/video_segments_list.txt", 'w') and the lines of the list
WriteConcatFile ==
    \E j \in Jobs :
        /\ jpc[j] = "concat"
        /\ concat_file' = [owner |-> j, files |-> jList[j]]
        /\ jpc' = [jpc EXCEPT ![j] = "ffmpeg"]
        /\ UNCHANGED <<spk_file, vid_file, jNum, jk, jList, jGenderIn, jOut,
                       jRc>>
        /\ UNCHANGED <<pvars, mvars, vvars, dvars, bvars,
                   avars, rvars, wvars>>

\* ffmpeg -f concat -i concat_file
RunConcat ==
    \E j \in Jobs :
        /\ jpc[j] = "ffmpeg"
        /\ jRc' = [jRc EXCEPT ![j] = ConcatCode(concat_file, vid_file)]
        /\ jOut' = [jOut EXCEPT ![j] =
                       IF ConcatCode(concat_file, vid_file) = 0
                       THEN ConcatInputs(concat_file, vid_file) ELSE <<>>]
        /\ jpc' = [jpc EXCEPT ![j] = "cleanup"]
        /\ UNCHANGED <<spk_file, vid_file, concat_file, jNum, jk, jList,
                       jGenderIn>>
        /\ UNCHANGED <<pvars, mvars, vvars, dvars, bvars,
                   avars, rvars, wvars>>

\* the clean-up of _combine_video_segments_with_audio, then return
CleanUp ==
    \E j \in Jobs :
        /\ jpc[j] = "cleanup"
        /\ IF concat_file.owner = NoFile
           THEN UNCHANGED <<concat_file, vid_file>>
           ELSE /\ concat_file' = [owner |-> NoFile, files |-> <<>>]
                /\ vid_file' = UnlinkInTurn(vid_file, jList[j])
        /\ jpc' = [jpc EXCEPT ![j] = "done"]
        /\ UNCHANGED <<spk_file, jNum, jk, jList, jGenderIn, jOut, jRc>>
        /\ UNCHANGED <<pvars, mvars, vvars, dvars, bvars,
                   avars, rvars, wvars>>

InitJobs == PIdle /\ MIdle /\ VIdle /\ DIdle /\ BIdle /\ JInit /\ AIdle /\ RIdle
    /\ WIdle

NextJobs ==
    \/ ExportSpeakerSegment
    \/ AnalyzeSpeakerSegment
    \/ ExtractVideoSegment
    \/ ExtractVideoSegmentFails
    \/ WriteConcatFile
    \/ RunConcat
    \/ CleanUp

SpecJobs == InitJobs /\ [][NextJobs]_vars

(***************************************************************************)
(* C20. Two jobs on different videos that run at the same time share no    *)
(* mutable state: a temporary file written by one job is never read or     *)
(* overwritten by the other.  Every speaker segment a job analyses, the    *)
(* list its FFmpeg reads and every video segment in its output are its own.*)
(***************************************************************************)
C20_JobsShareNothing ==
    \A j \in Jobs :
        /\ \A k \in 1..Len(jGenderIn[j]) : jGenderIn[j][k] = j
        /\ \A k \in 1..Len(jOut[j]) : jOut[j][k] = j
        /\ jpc[j] = "gender" =>
               \A i \in SegIds : i < jNum[j] => spk_file[i] = j
        /\ jpc[j] = "ffmpeg" => concat_file = [owner |-> j, files |-> jList[j]]

(***************************************************************************)
(* SpecAttr: _detect_gender_for_segments, run twice on one instance, and   *)
(* merge_short_segments, applied twice, on a segment list the silence      *)
(* segmentation returns                                                    *)
(*                                                                         *)
(* The audio is sound, pause, sound, ..., sound; every sound is long       *)
(* enough to be a segment.  A list may begin with LeadSegs segments of 5 s *)
(* that follow one another after pauses of 1 s, which gives the segments   *)
(* behind them an id of two digits.                                        *)
(***************************************************************************)
MaxAttrSegs == 3
LeadSegs == 10

AttrDurs == {20, 50}         \* 2 s, 5 s
AttrPauses == {10, 31}       \* 1 s, 3.1 s
AttrMergeMins == {30, 50}    \* min_duration of the merge: 3 s, 5 s

TmpPrefixLen == 21    \* len("/tmp/speaker_segment_")
WavSuffixLen == 4     \* len(".wav")

\* len(f"/tmp/speaker_segment_{segment_id}.wav")
PathLen(segment_id) ==
    TmpPrefixLen + (IF segment_id < 10 THEN 1 ELSE 2) + WavSuffixLen

\* the speaker the loop gives the k-th of the sounds: the pause behind it
\* counts unless it is the last detected silence, and the sound behind the
\* last silence goes through the test on 30 s
SpeakerOfSound(durs, sils, k, cur) ==
    IF k = Len(durs) THEN LastSpeaker(cur, durs[k])
    ELSE NextSpeaker(k - 1, cur,
                     IF k < Len(durs) - 1 THEN sils[k] ELSE 0, durs[k])

RECURSIVE SilenceWalk(_, _, _, _, _)
SilenceWalk(durs, sils, k, pos, cur) ==
    IF k > Len(durs) THEN <<>>
    ELSE LET speaker == SpeakerOfSound(durs, sils, k, cur)
             pause == IF k < Len(durs) THEN sils[k] ELSE 0
         IN <<Seg(k - 1, pos, pos + durs[k], durs[k], SpeakerLabel(speaker),
                  pause)>>
            \o SilenceWalk(durs, sils, k + 1, pos + durs[k] + pause, speaker)

\* the list _segment_by_silence_with_speaker_logic returns for the audio
SilenceSegmentsOf(durs, sils) == SilenceWalk(durs, sils, 1, 0, 0)

AttrSegmentInputs(maxn) ==
    UNION {{SilenceSegmentsOf([k \in 1..lead |-> 50] \o durs,
                              [k \in 1..lead |-> 10] \o sils) :
                durs \in [1..n -> AttrDurs], sils \in [1..n -> AttrPauses],
                lead \in {0, LeadSegs}} : n \in 1..maxn}

\* what the analysis of a file can meet: the median pitch is low, high, or
\* not decisive (none found, or 150..200 Hz), in which case the spectral
\* features decide; either step can raise
GenderOutcomes ==
    {[pitch |-> p, spectral |-> "male"] : p \in {"raises", "low", "high"}}
    \cup {[pitch |-> "spectral", spectral |-> s] :
              s \in {"male", "female", "raises"}}

\* _analyze_spectral_features
AnalyzeSpectralFeatures(outcome) ==
    IF outcome.spectral = "raises" THEN "male" ELSE outcome.spectral

\* _analyze_voice_gender
AnalyzeVoiceGender(audio_path_len, outcome) ==
    IF outcome.pitch = "raises"
    THEN (IF audio_path_len % 2 = 0 THEN "male" ELSE "female")
    ELSE IF outcome.pitch = "low" THEN "male"
    ELSE IF outcome.pitch = "high" THEN "female"
    ELSE AnalyzeSpectralFeatures(outcome)

SpeakersOf(segs) == {segs[k].speaker : k \in 1..Len(segs)}

\* what _analyze_voice_gender returns for the file of every segment
AnalysisOf(segs, out) ==
    [k \in 1..Len(segs) |->
        AnalyzeVoiceGender(PathLen(segs[k].id), out[segs[k].speaker])]

AInit ==
    /\ spk_segments \in AttrSegmentInputs(MaxAttrSegs)
    /\ outcomes \in [SpeakersOf(spk_segments) -> GenderOutcomes]
    /\ used_voices = [male |-> 0, female |-> 0]
    /\ runs = <<>>
    /\ merge_min = 0 /\ merged = <<>> /\ remerged = <<>>
    /\ apc = "start"
    /\ d_audio = <<>> /\ min_duration = 0 /\ silence_segments = <<>>
    /\ sil_i = 1 /\ current_pos = 0 /\ current_speaker = 0
    /\ route = "silence" /\ dpc = "idle"

\* the first call of _detect_gender_for_segments
DetectGenderFirst ==
    /\ apc = "start"
    /\ LET r == DetectGenderForSegments(spk_segments,
                                        AnalysisOf(spk_segments, outcomes))
       IN /\ spk_segments' = r.segs
          /\ used_voices' = r.used
          /\ runs' = <<r.segs>>
    /\ apc' = "attributed"
    /\ UNCHANGED <<d_audio, min_duration, silence_segments, sil_i,
                   current_pos, current_speaker, route, merge_min, merged,
                   dpc, outcomes, remerged>>
    /\ UNCHANGED <<pvars, mvars, vvars, bvars, jvars, rvars, wvars>>

\* a second call on the same instance with the list of the first
DetectGenderAgain ==
    /\ apc = "attributed"
    /\ Len(runs) = 1
    /\ LET r == DetectGenderForSegments(spk_segments,
                                        AnalysisOf(spk_segments, outcomes))
       IN /\ spk_segments' = r.segs
          /\ used_voices' = r.used
          /\ runs' = Append(runs, r.segs)
    /\ UNCHANGED <<d_audio, min_duration, silence_segments, sil_i,
                   current_pos, current_speaker, route, merge_min, merged,
                   dpc, outcomes, remerged, apc>>
    /\ UNCHANGED <<pvars, mvars, vvars, bvars, jvars, rvars, wvars>>

\* merge_short_segments on the attributed list
MergeAttributed ==
    /\ apc = "attributed"
    /\ \E mind \in AttrMergeMins :
          /\ merge_min' = mind
          /\ merged' = MergeShortSegments(spk_segments, mind)
    /\ apc' = "merged"
    /\ UNCHANGED <<d_audio, min_duration, silence_segments, sil_i,
                   current_pos, current_speaker, spk_segments, used_voices,
                   route, dpc, outcomes, runs, remerged>>
    /\ UNCHANGED <<pvars, mvars, vvars, bvars, jvars, rvars, wvars>>

\* merge_short_segments on what it returned, with the same min_duration
MergeAgain ==
    /\ apc = "merged"
    /\ remerged' = MergeShortSegments(merged, merge_min)
    /\ apc' = "remerged"
    /\ UNCHANGED <<dvars, outcomes, runs>>
    /\ UNCHANGED <<pvars, mvars, vvars, bvars, jvars, rvars, wvars>>

InitAttr ==
    PIdle /\ MIdle /\ VIdle /\ AInit /\ BIdle /\ JIdle /\ RIdle /\ WIdle

NextAttr ==
    \/ DetectGenderFirst
    \/ DetectGenderAgain
    \/ MergeAttributed
    \/ MergeAgain

SpecAttr == InitAttr /\ [][NextAttr]_vars

(***************************************************************************)
(* Reading the attributed lists                                            *)
(***************************************************************************)
\* the analysis of the file raised, in the pitch step or in the spectral
\* step
AnalysisFailed(outcome) ==
    \/ outcome.pitch = "raises"
    \/ outcome.pitch = "spectral" /\ outcome.spectral = "raises"

VoicesOf(gender) == {VoiceMapping[gender][v] : v \in 1..Len(VoiceMapping[gender])}

\* the segments of the input that went into segment k of the output
MembersOf(segs, k, mind) ==
    LET g == NthGroup(segs, k, mind)
    IN SubSeq(segs, g, GroupEnd(segs, g, mind))

(***************************************************************************)
(* C21. A speaker whose gender analysis raised, in the pitch analysis or   *)
(* in the spectral features, has gender 'male' on every segment, and every *)
(* such segment has a voice of the male pool.                              *)
(***************************************************************************)
C21_FailureDefaultsToMale ==
    apc \in {"attributed", "merged", "remerged"} =>
        \A k \in 1..Len(spk_segments) :
            AnalysisFailed(outcomes[spk_segments[k].speaker]) =>
                /\ spk_segments[k].gender = "male"
                /\ spk_segments[k].voice_id \in VoicesOf("male")

(***************************************************************************)
(* C22. Two runs of _detect_gender_for_segments on the same list and the   *)
(* same instance give every segment the same speaker, gender and voice_id. *)
(***************************************************************************)
C22_AttributionDeterministic ==
    Len(runs) = 2 =>
        /\ Len(runs[1]) = Len(runs[2])
        /\ \A k \in 1..Len(runs[1]) :
              /\ runs[1][k].speaker = runs[2][k].speaker
              /\ runs[1][k].gender = runs[2][k].gender
              /\ runs[1][k].voice_id = runs[2][k].voice_id

\* the second run began on an instance whose male counter stood at 2, and
\* still gave the first segment the first male voice
C22_Witness ==
    /\ Len(runs) = 2
    /\ Len(runs[1]) = 2
    /\ runs[1][1].voice_id = "ru-male-1" /\ runs[1][2].voice_id = "ru-male-2"
    /\ runs[2][1].voice_id = "ru-male-1" /\ runs[2][2].voice_id = "ru-male-2"
    /\ used_voices.male = 2

(***************************************************************************)
(* C29. merge_short_segments applied to its own output with the same       *)
(* min_duration returns the same segments: same start_time, end_time,      *)
(* duration, speaker and merged_from, and as many of them.                 *)
(***************************************************************************)
C29_MergeIdempotent ==
    apc = "remerged" =>
        /\ Len(remerged) = Len(merged)
        /\ \A k \in 1..Len(merged) :
              k <= Len(remerged) =>
                  /\ remerged[k].start_time = merged[k].start_time
                  /\ remerged[k].end_time = merged[k].end_time
                  /\ remerged[k].duration = merged[k].duration
                  /\ remerged[k].speaker = merged[k].speaker
                  /\ remerged[k].merged_from = merged[k].merged_from

\* three segments of 2 s of one speaker under a min_duration of 3 s: the
\* first pass merges the first two, the second pass finds a merged segment
\* of 4 s before a segment of 2 s of the same speaker and leaves them apart
C29_Witness ==
    /\ apc = "remerged" /\ merge_min = 30
    /\ Len(spk_segments) = 3
    /\ Len(merged) = 2
    /\ merged[1].merged_from = 2 /\ merged[1].duration = 40
    /\ merged[2].duration = 20
    /\ merged[1].speaker = merged[2].speaker
    /\ Len(remerged) = 2
    /\ remerged[1].merged_from = 2 /\ remerged[1].duration = 40

(***************************************************************************)
(* C30. Every segment merge_short_segments returns carries a gender and a  *)
(* voice_id that its members had on input.                                 *)
(***************************************************************************)
C30_MergeKeepsAttribution ==
    apc \in {"merged", "remerged"} =>
        \A k \in 1..Len(merged) :
            LET members == MembersOf(spk_segments, k, merge_min)
            IN /\ \E j \in 1..Len(members) :
                      merged[k].gender = members[j].gender
               /\ \E j \in 1..Len(members) :
                      merged[k].voice_id = members[j].voice_id

(***************************************************************************)
(* C23. For a recording of 200 s whose detected silences are two pauses of *)
(* more than 3 s, with three candidates that all reach the minimum         *)
(* duration, the silence segmentation returns exactly three segments,      *)
(* labelled Speaker_A, Speaker_B, Speaker_A in this order.                 *)
(***************************************************************************)
C23_ScenarioA ==
    (/\ route = "silence" /\ dpc \in {"gender", "returned"}
     /\ d_audio \in ScenarioAInputs) =>
        /\ Len(spk_segments) = 3
        /\ Len(spk_segments) = 3 =>
               /\ spk_segments[1].speaker = "Speaker_A"
               /\ spk_segments[2].speaker = "Speaker_B"
               /\ spk_segments[3].speaker = "Speaker_A"

(***************************************************************************)
(* C24. In the silence segmentation the time of a candidate that is not    *)
(* emitted goes to the next candidate: the first segment starts where the  *)
(* first candidate starts, and every later segment starts right behind the *)
(* silence that followed the segment before it.                            *)
(***************************************************************************)
C24_ShortCandidateFoldedIntoNext ==
    (route = "silence" /\ dpc \in {"gender", "returned"}) =>
        /\ spk_segments # <<>> =>
               spk_segments[1].start_time =
                   IF silence_segments # <<>> /\ silence_segments[1].start = 0
                   THEN silence_segments[1].end ELSE 0
        /\ \A k \in 2..Len(spk_segments) :
               spk_segments[k].start_time =
                   spk_segments[k - 1].end_time
                   + spk_segments[k - 1].silence_after

(***************************************************************************)
(* SpecRetime: what the two per-segment retiming routines do with one      *)
(* speech segment that has a translated file                               *)
(*                                                                         *)
(* A speed factor is the fraction num / den.                               *)
(***************************************************************************)
RetimeOriginals == {4, 38, 40, 42, 100}      \* 0.4 s, 3.8 s, 4 s, 4.2 s, 10 s
RetimeSynths == {0, 20, 40, 41, 72, 400}     \* 0 s (an empty file) ... 40 s

\* _adjust_video_speed_by_segments: speed_ratio of a valid segment, 1.0 when
\* the translated audio is empty, and the clip appended for the segment
AdjustClip(s) ==
    LET original_duration == s.end_time - s.start_time
        ratio == IF s.synth > 0
                 THEN [num |-> original_duration, den |-> s.synth]
                 ELSE [num |-> 1, den |-> 1]
    IN IF Retimed(s)
       THEN [written |-> TRUE, retimed |-> TRUE, num |-> ratio.num,
             den |-> ratio.den, len |-> s.synth]
       ELSE [written |-> TRUE, retimed |-> FALSE, num |-> ratio.num,
             den |-> ratio.den, len |-> original_duration]

\* create_synchronized_video_blocks: the block written for the segment
BlockClip(s) ==
    LET b == Block(s, 1)
    IN [written |-> TRUE, retimed |-> BlockRetimed(Duration(s), s.synth),
        num |-> Duration(s), den |-> s.synth, len |-> b.video]

\* the division by a translated duration of 0 raises, the except branch of
\* the loop goes on to the next segment: no block
NoBlock == [written |-> FALSE, retimed |-> FALSE, num |-> 0, den |-> 0,
            len |-> 0]

RInit ==
    /\ \E o \in RetimeOriginals, t \in RetimeSynths :
          r_segment = [id |-> 1, start_time |-> 10, end_time |-> 10 + o,
                       synth |-> t]
    /\ r_adjust = <<>>
    /\ r_block = <<>>
    /\ rpc = {}

\* the turn of the two loops of _adjust_video_speed_by_segments for the
\* segment
AdjustSpeedSegment ==
    /\ "adjust" \notin rpc
    /\ r_adjust' = <<AdjustClip(r_segment)>>
    /\ rpc' = rpc \cup {"adjust"}
    /\ UNCHANGED <<r_segment, r_block>>
    /\ UNCHANGED <<pvars, mvars, vvars, dvars, bvars, jvars, avars, wvars>>

\* the turn of the loop of create_synchronized_video_blocks for the segment
BlockSpeedSegment ==
    /\ "blocks" \notin rpc
    /\ r_segment.synth > 0
    /\ r_block' = <<BlockClip(r_segment)>>
    /\ rpc' = rpc \cup {"blocks"}
    /\ UNCHANGED <<r_segment, r_adjust>>
    /\ UNCHANGED <<pvars, mvars, vvars, dvars, bvars, jvars, avars, wvars>>

BlockSpeedRaises ==
    /\ "blocks" \notin rpc
    /\ r_segment.synth = 0
    /\ r_block' = <<NoBlock>>
    /\ rpc' = rpc \cup {"blocks"}
    /\ UNCHANGED <<r_segment, r_adjust>>
    /\ UNCHANGED <<pvars, mvars, vvars, dvars, bvars, jvars, avars, wvars>>

InitRetime ==
    PIdle /\ MIdle /\ VIdle /\ DIdle /\ BIdle /\ JIdle /\ AIdle /\ RInit
    /\ WIdle

NextRetime ==
    \/ AdjustSpeedSegment
    \/ BlockSpeedSegment
    \/ BlockSpeedRaises

SpecRetime == InitRetime /\ [][NextRetime]_vars

(***************************************************************************)
(* Reading the clips                                                       *)
(***************************************************************************)
RetimeClips == r_adjust \o r_block

\* |original / translated - 1| > 0.05
BeyondTolerance(s) ==
    20 * Abs((s.end_time - s.start_time) - s.synth) > s.synth

\* original / translated <= 0.1
AtOrBelowMinimum(s) == 10 * (s.end_time - s.start_time) <= s.synth

(***************************************************************************)
(* C26. For a segment with a translated audio of positive length, each of  *)
(* the two routines retimes the sub-clip exactly when                      *)
(* |original_duration / synthesized_duration - 1| > 0.05, by the factor    *)
(* original_duration / synthesized_duration, and otherwise passes it on    *)
(* with its original length.                                               *)
(***************************************************************************)
C26_RetimedBeyondFivePercent ==
    (rpc # {} /\ r_segment.synth > 0) =>
        \A k \in 1..Len(RetimeClips) :
            LET c == RetimeClips[k]
                original_duration == r_segment.end_time - r_segment.start_time
            IN /\ c.written
               /\ c.retimed <=> BeyondTolerance(r_segment)
               /\ c.retimed =>
                      c.num * r_segment.synth = c.den * original_duration
               /\ ~c.retimed => c.len = original_duration

(***************************************************************************)
(* C27. No sub-clip is retimed by a factor that is zero, negative,         *)
(* undefined or under 0.1, and a segment whose ratio is at or below 0.1,   *)
(* or whose synthesized duration is zero, is retimed by exactly 0.1.       *)
(***************************************************************************)
C27_RatioClampedAtMinimum ==
    rpc # {} =>
        \A k \in 1..Len(RetimeClips) :
            LET c == RetimeClips[k]
            IN /\ c.written
               /\ c.retimed =>
                      c.num > 0 /\ c.den > 0 /\ 10 * c.num >= c.den
               /\ (r_segment.synth = 0 \/ AtOrBelowMinimum(r_segment)) =>
                      c.retimed /\ 10 * c.num = c.den

(***************************************************************************)
(* SpecWeb: VideoTranslatorApp, its upload and delete requests, the thread *)
(* of process_video_async of every task and the hourly clean-up            *)
(*                                                                         *)
(* The server runs threaded: requests and worker threads interleave at     *)
(* every access to self.active_tasks, to a task object and to the files.   *)
(***************************************************************************)
Tasks == {1, 2}

WInit ==
    /\ active_tasks = {}
    /\ task_status = [t \in Tasks |-> "none"]
    /\ input_file = [t \in Tasks |-> FALSE]
    /\ output_file = [t \in Tasks |-> FALSE]
    /\ worker = [t \in Tasks |-> "none"]
    /\ deleting = {}

\* upload_video with a file that passes validation: the file is saved, the
\* task is registered with status 'pending' and its thread is started
UploadVideo ==
    \E t \in Tasks :
        /\ task_status[t] = "none"
        /\ input_file' = [input_file EXCEPT ![t] = TRUE]
        /\ task_status' = [task_status EXCEPT ![t] = "pending"]
        /\ active_tasks' = active_tasks \cup {t}
        /\ worker' = [worker EXCEPT ![t] = "started"]
        /\ UNCHANGED <<output_file, deleting>>
        /\ UNCHANGED <<pvars, mvars, vvars, dvars, bvars, jvars, avars, rvars>>

\* upload_video with a file that fails validation: the saved file is
\* unlinked and no task is made
UploadInvalid ==
    \E t \in Tasks :
        /\ task_status[t] = "none"
        /\ task_status' = [task_status EXCEPT ![t] = "rejected"]
        /\ UNCHANGED <<active_tasks, input_file, output_file, worker,
                       deleting>>
        /\ UNCHANGED <<pvars, mvars, vvars, dvars, bvars, jvars, avars, rvars>>

\* process_video_async, its first statements: task.status = 'processing'
WorkerBegin ==
    \E t \in Tasks :
        /\ worker[t] = "started"
        /\ task_status' = [task_status EXCEPT ![t] = "processing"]
        /\ worker' = [worker EXCEPT ![t] = "translating"]
        /\ UNCHANGED <<active_tasks, input_file, output_file, deleting>>
        /\ UNCHANGED <<pvars, mvars, vvars, dvars, bvars, jvars, avars, rvars>>

\* translate_video returned True: the output is written
WorkerCompletes ==
    \E t \in Tasks :
        /\ worker[t] = "translating"
        /\ input_file[t]
        /\ output_file' = [output_file EXCEPT ![t] = TRUE]
        /\ task_status' = [task_status EXCEPT ![t] = "completed"]
        /\ worker' = [worker EXCEPT ![t] = "finished"]
        /\ UNCHANGED <<active_tasks, input_file, deleting>>
        /\ UNCHANGED <<pvars, mvars, vvars, dvars, bvars, jvars, avars, rvars>>

\* translate_video returned False or raised
WorkerFails ==
    \E t \in Tasks :
        /\ worker[t] = "translating"
        /\ task_status' = [task_status EXCEPT ![t] = "error"]
        /\ worker' = [worker EXCEPT ![t] = "finished"]
        /\ UNCHANGED <<active_tasks, input_file, output_file, deleting>>
        /\ UNCHANGED <<pvars, mvars, vvars, dvars, bvars, jvars, avars, rvars>>

\* delete_task up to its test: the task is known and its status is not
\* 'processing'
DeleteTest ==
    \E t \in Tasks :
        /\ t \in active_tasks
        /\ t \notin deleting
        /\ task_status[t] # "processing"
        /\ deleting' = deleting \cup {t}
        /\ UNCHANGED <<active_tasks, task_status, input_file, output_file,
                       worker>>
        /\ UNCHANGED <<pvars, mvars, vvars, dvars, bvars, jvars, avars, rvars>>

\* delete_task after its test: both files are unlinked and the task leaves
\* active_tasks
DeleteRemove ==
    \E t \in deleting :
        /\ input_file' = [input_file EXCEPT ![t] = FALSE]
        /\ output_file' = [output_file EXCEPT ![t] = FALSE]
        /\ active_tasks' = active_tasks \ {t}
        /\ deleting' = deleting \ {t}
        /\ UNCHANGED <<task_status, worker>>
        /\ UNCHANGED <<pvars, mvars, vvars, dvars, bvars, jvars, avars, rvars>>

\* cleanup_old_tasks for a task that is 'completed' or 'error' and older
\* than max_age_hours
CleanupOldTask ==
    \E t \in active_tasks :
        /\ task_status[t] \in {"completed", "error"}
        /\ input_file' = [input_file EXCEPT ![t] = FALSE]
        /\ output_file' = [output_file EXCEPT ![t] = FALSE]
        /\ active_tasks' = active_tasks \ {t}
        /\ UNCHANGED <<task_status, worker, deleting>>
        /\ UNCHANGED <<pvars, mvars, vvars, dvars, bvars, jvars, avars, rvars>>

InitWeb ==
    PIdle /\ MIdle /\ VIdle /\ DIdle /\ BIdle /\ JIdle /\ AIdle /\ RIdle
    /\ WInit

NextWeb ==
    \/ UploadVideo
    \/ UploadInvalid
    \/ WorkerBegin
    \/ WorkerCompletes
    \/ WorkerFails
    \/ DeleteTest
    \/ DeleteRemove
    \/ CleanupOldTask

SpecWeb == InitWeb /\ [][NextWeb]_vars

(***************************************************************************)
(* C28. While the worker thread of a task has not finished, the task is in *)
(* active_tasks and its input file exists.                                 *)
(***************************************************************************)
C28_NoDeleteBeforeWorkerFinished ==
    \A t \in DOMAIN worker :
        worker[t] \in {"started", "translating"} =>
            /\ t \in active_tasks
            /\ input_file[t]

====
